---- MODULE Spec2Model ----
(***************************************************************************)
(* Reminder / message delivery pipeline of the GST compliance app:         *)
(* the atomic claim of due reminders (claim_pending_reminders), the drain   *)
(* (send-reminders cron route, processReminder), the consent transitions    *)
(* (settings update route, optOutContact / optInContact) with their         *)
(* cancellation of pending work, and the trigger that cancels reminders     *)
(* when a deadline is filed.                                                *)
(***************************************************************************)
EXTENDS Integers, Sequences, FiniteSets, TLC

\* ------------------------------------------------------------------------
\* Bounds of the model
\* ------------------------------------------------------------------------
NumReminders == 2
NumClaimRows == 5
BatchSize == 2
MaxTime == 1
MaxContactReminders == 1
FirstYear == 2024
LastYear == 2025

\* ------------------------------------------------------------------------
\* Static data: tables the pipeline only reads
\* ------------------------------------------------------------------------
Null == "null"
Ts == "ts"

Workers == {"w1", "w2"}
AllContacts == {"c1", "c2"}
Accounts == {"a1"}
Deadlines == {"d1", "d2"}

\* contacts.account_id
ContactAccount(c) == "a1"

\* contacts.phone (nullable in the schema; both contacts signed up by phone)
ContactPhone(c) == TRUE

\* deadlines.entity_id -> gst_entities.account_id
DeadlineAccount(d) == "a1"

\* the contact a deadline belongs to in the plain-query drain (deadline.contact)
DeadlineContact(d) == "c1"

\* deadlines.due_date, a DATE: the number of its day
DueDate(d) == IF d = "d1" THEN 2 ELSE 3

\* deadlines.return_type
DeadlineReturnType(d) == IF d = "d1" THEN "GSTR1" ELSE "GSTR3B"

\* gst_entities.gstin of the deadline's entity
DeadlineGstin(d) == "27AABCU9603R1ZX"

AccountDeadlines(a) == {d \in Deadlines : DeadlineAccount(d) = a}

ReminderStatus == {"pending", "sent", "failed", "cancelled"}

Terminal == {"sent", "failed", "cancelled"}

DeliveryStatus == {"queued", "sent", "delivered", "read", "failed", "cancelled"}

Templates == <<"gst_deadline_tminus3", "gst_deadline_tminus1", "gst_deadline_dueday">>

\* the rows the scheduler has written: odd ids belong to d1, even ids to d2,
\* one row per (deadline, template)
SeedDeadline(r) == IF r % 2 = 1 THEN "d1" ELSE "d2"

SeedTemplate(r) == Templates[(((r + 1) \div 2 - 1) % 3) + 1]

SeedSendAt(r) == (r + 1) \div 2

NewReminder(r) ==
  [deadline_id |-> SeedDeadline(r), template_id |-> SeedTemplate(r),
   send_at |-> SeedSendAt(r), status |-> "pending", claimed_by |-> Null,
   sent_at |-> Null, error_message |-> Null]

VARIABLES
  now,                \* wall clock
  reminder_schedule,  \* table reminder_schedule: id -> row
  message_outbox,     \* table message_outbox: sequence of rows
  contacts,           \* table contacts: consent fields
  deadlines,          \* table deadlines: filed_at
  reminders,          \* table reminders (contact-keyed variant): sequence of rows
  wk,                 \* per drain invocation: position and locals
  result,             \* per drain invocation: SendRemindersResult
  req,                \* the consent request in flight, with its response
  sched,              \* the scheduling call in flight, with its results
  gst_deadlines,      \* table gst_deadlines: id -> row
  prisma_deadline,    \* the rows written by prisma.deadline.create
  http,               \* the deadline API request in flight, with its response
  generated,          \* a generateDeadlines call: arguments and return value
  cron,               \* per invocation of the plain-query drain: position and locals
  hist                \* history: facts about past steps used by the properties

vars == <<now, reminder_schedule, message_outbox, contacts, deadlines,
          reminders, wk, result, req, sched, gst_deadlines, prisma_deadline,
          http, generated, cron, hist>>

\* the state of the deadline API routes and of the generator
web == <<gst_deadlines, prisma_deadline, http, generated, cron>>

\* ------------------------------------------------------------------------
\* Helpers
\* ------------------------------------------------------------------------
Ids == DOMAIN reminder_schedule

Contacts == DOMAIN contacts

AccountContacts(a) == {c \in Contacts : ContactAccount(c) = a}

IdleWorker ==
  [pc |-> "idle", now |-> 0, cand |-> {}, got |-> {}, todo |-> {},
   cur |-> 0, contact |-> Null, err |-> Null]

ZeroResult ==
  [processed |-> 0, sent |-> 0, skipped |-> 0, failed |-> 0, errors |-> <<>>]

NoResult ==
  [success |-> FALSE, contactUpdated |-> FALSE,
   remindersCancelled |-> 0, messagesCancelled |-> 0, error |-> FALSE]

\* OptOutResult of cancelAllPendingReminders
NoCleanup == [cancelledReminders |-> 0, cancelledMessages |-> 0]

\* api: the entry point; response: what it returns to its caller;
\* cleanupFailed: whether a cancellation of the request raised an error;
\* cleanup: the counts the two cancellations of cancelAllPendingReminders return
IdleReq ==
  [pc |-> "idle", api |-> Null, contact |-> Null, tasks |-> {},
   response |-> NoResult, cleanupFailed |-> FALSE, cleanup |-> NoCleanup]

\* one createReminderSchedule call of a batch, not yet past its read:
\* filed_at is that of the deadline it reads, rows its remindersToCreate
NewCall ==
  [pc |-> "read", filed_at |-> Null, rows |-> {}, created |-> {}, error |-> Null]

\* no plain-query drain invocation: seen is what findMany returned of each
\* reminder's deadline and contact
IdleCron ==
  [pc |-> "idle", seen |-> <<>>, todo |-> {}, cur |-> 0, err |-> Null,
   result |-> ZeroResult]

\* no scheduling call in flight, in a server process of zone z
IdleSched(z) == [pc |-> "idle", tz |-> z, ids |-> <<>>, call |-> <<>>, results |-> <<>>]

Min(a, b) == IF a <= b THEN a ELSE b

\* rows of reminder_schedule locked FOR UPDATE by a claim transaction in flight
LockedRows == UNION {wk[w].got : w \in {v \in Workers : wk[v].pc = "claim"}}

\* variant: the WHERE clause without claimed_at IS NULL
ClaimableRow_IgnoringClaim(row, p_now) ==
  /\ row.status = "pending"
  /\ row.send_at <= p_now

\* WHERE status = 'pending' AND claimed_at IS NULL AND send_at <= p_now
ClaimableRow(row, p_now) ==
  /\ row.status = "pending"
  /\ row.claimed_by = Null
  /\ row.send_at <= p_now

\* variant: the row is locked as the statement's snapshot saw it
ClaimRecheck_Snapshot(row, p_now) == TRUE

\* the re-evaluation of the WHERE clause on the latest row version, done when
\* the row is locked
ClaimRecheck(row, p_now) == ClaimableRow(row, p_now)

\* variant: a plain SELECT, which takes no row lock and passes over nothing
SkipLocked_NoLock(r, w) == FALSE

\* FOR UPDATE SKIP LOCKED: a row locked by another transaction is passed over
SkipLocked(r, w) == \E v \in Workers \ {w} : wk[v].pc = "claim" /\ r \in wk[v].got

\* variant: the inner SELECT without ORDER BY
OrderBySendAt_Unordered(r, rows) == TRUE

\* ORDER BY send_at ASC: r is the next row of rows in that order
OrderBySendAt(r, rows) ==
  \A q \in rows : reminder_schedule[r].send_at <= reminder_schedule[q].send_at

\* variant: the contact is chosen by phone alone
EligibleContact_PhoneOnly(c) == ContactPhone(c)

\* isEligible / the drain's contacts.find predicate
EligibleContact(c) ==
  /\ contacts[c].whatsapp_consent
  /\ ContactPhone(c)
  /\ contacts[c].opt_out_at = Null

\* hasWhatsAppConsent: whatsapp_consent === true && opt_out_at === null
hasWhatsAppConsent(c) ==
  contacts[c].whatsapp_consent = TRUE /\ contacts[c].opt_out_at = Null

\* ------------------------------------------------------------------------
\* Deadline generator: generateDeadlines.  A date is a calendar day
\* [y, m, d] of the process's local zone, at 00:00
\* ------------------------------------------------------------------------
\* DEADLINE_CONFIGS
DEADLINE_CONFIGS ==
  <<[return_type |-> "GSTR-1", day |-> 11, frequency |-> "monthly"],
    [return_type |-> "GSTR-3B", day |-> 20, frequency |-> "monthly"],
    [return_type |-> "GSTR-1", day |-> 13, frequency |-> "quarterly"],
    [return_type |-> "GSTR-3B", day |-> 22, frequency |-> "quarterly"]>>

\* a value of filingFrequency outside the FilingFrequency type
OtherFrequency == "annual"

IsLeapYear(y) == (y % 4 = 0 /\ y % 100 # 0) \/ y % 400 = 0

DaysInMonth(y, m) ==
  IF m = 2 THEN (IF IsLeapYear(y) THEN 29 ELSE 28)
  ELSE IF m \in {4, 6, 9, 11} THEN 30 ELSE 31

RECURSIVE DaysBeforeMonth(_, _)
DaysBeforeMonth(y, m) ==
  IF m = 1 THEN 0 ELSE DaysBeforeMonth(y, m - 1) + DaysInMonth(y, m - 1)

\* getTime() in days: the days from 0001-01-01, which is day 1, to the date
DayNumber(date) ==
  365 * (date.y - 1) + (date.y - 1) \div 4 - (date.y - 1) \div 100
    + (date.y - 1) \div 400 + DaysBeforeMonth(date.y, date.m) + date.d

\* getDay(): 0 is Sunday, 6 is Saturday (0001-01-01 is a Monday)
GetDay(date) == DayNumber(date) % 7

\* variant: only Sunday counts as weekend
isWeekend_SundayOnly(date) == GetDay(date) = 0

\* isWeekend of date-fns
isWeekend(date) == GetDay(date) \in {0, 6}

\* addDays(date, 1)
NextDay(date) ==
  IF date.d < DaysInMonth(date.y, date.m) THEN [date EXCEPT !.d = @ + 1]
  ELSE IF date.m < 12 THEN [y |-> date.y, m |-> date.m + 1, d |-> 1]
  ELSE [y |-> date.y + 1, m |-> 1, d |-> 1]

\* startOfMonth of date-fns
startOfMonth(date) == [date EXCEPT !.d = 1]

\* addMonths of date-fns: the same day of the month n months away, or that
\* month's last day
addMonths(date, n) ==
  LET t == 12 * date.y + (date.m - 1) + n
      y == t \div 12
      m == (t % 12) + 1
  IN  [y |-> y, m |-> m,
       d |-> IF date.d <= DaysInMonth(y, m) THEN date.d ELSE DaysInMonth(y, m)]

\* setDate of date-fns, for a day the month has
setDate(date, day) == [date EXCEPT !.d = day]

\* moveToNextWorkingDay: while (isWeekend(workingDate)) addDays(workingDate, 1)
RECURSIVE moveToNextWorkingDay(_)
moveToNextWorkingDay(date) ==
  IF isWeekend(date) THEN moveToNextWorkingDay(NextDay(date)) ELSE date

\* getPeriodForReturn
getPeriodForReturn(baseDate, frequency, monthsBack) ==
  LET periodDate == addMonths(baseDate, 0 - monthsBack) IN
  IF frequency = "quarterly"
  THEN [period_month |-> ((periodDate.m - 1) \div 3) * 3 + 3,
        period_year |-> periodDate.y]
  ELSE [period_month |-> periodDate.m, period_year |-> periodDate.y]

\* calculateDueDate: monthsToAdd is 1 for either frequency
calculateDueDate(period_month, period_year, day, frequency) ==
  moveToNextWorkingDay(
    setDate(addMonths([y |-> period_year, m |-> period_month, d |-> 1], 1), day))

\* periodsToGenerate: 12, or Math.ceil(12 / 3) for anything but 'monthly'
periodsToGenerate(filingFrequency) == IF filingFrequency = "monthly" THEN 12 ELSE 4

\* relevantConfigs, as positions in DEADLINE_CONFIGS
relevantConfigs(filingFrequency) ==
  {c \in 1..Len(DEADLINE_CONFIGS) : DEADLINE_CONFIGS[c].frequency = filingFrequency}

\* the deadline pushed, if any, for period i and config c
Draft(filingFrequency, startDate, i, c) ==
  LET currentDate == startOfMonth(startDate)
      monthsBack == IF filingFrequency = "monthly" THEN i ELSE i * 3
      period == getPeriodForReturn(currentDate, filingFrequency, monthsBack)
      dueDate == calculateDueDate(period.period_month, period.period_year,
                                  DEADLINE_CONFIGS[c].day, filingFrequency)
  IN  IF DayNumber(dueDate) >= DayNumber(startOfMonth(startDate))
      THEN <<[return_type |-> DEADLINE_CONFIGS[c].return_type,
              period_month |-> period.period_month,
              period_year |-> period.period_year,
              due_date |-> dueDate]>>
      ELSE <<>>

\* the inner loop over relevantConfigs, in the order of DEADLINE_CONFIGS
RECURSIVE ConfigLoop(_, _, _, _)
ConfigLoop(filingFrequency, startDate, i, c) ==
  IF c > Len(DEADLINE_CONFIGS) THEN <<>>
  ELSE (IF c \in relevantConfigs(filingFrequency)
        THEN Draft(filingFrequency, startDate, i, c) ELSE <<>>)
         \o ConfigLoop(filingFrequency, startDate, i, c + 1)

\* the outer loop: i from 0 to periodsToGenerate - 1
RECURSIVE PeriodLoop(_, _, _)
PeriodLoop(filingFrequency, startDate, i) ==
  IF i >= periodsToGenerate(filingFrequency) THEN <<>>
  ELSE ConfigLoop(filingFrequency, startDate, i, 1)
         \o PeriodLoop(filingFrequency, startDate, i + 1)

\* deadlines.sort by due date: the sort is stable
RECURSIVE InsertByDue(_, _)
InsertByDue(x, s) ==
  IF s = <<>> THEN <<x>>
  ELSE IF DayNumber(x.due_date) < DayNumber(Head(s).due_date) THEN <<x>> \o s
  ELSE <<Head(s)>> \o InsertByDue(x, Tail(s))

RECURSIVE SortByDue(_)
SortByDue(s) ==
  IF s = <<>> THEN <<>>
  ELSE InsertByDue(s[Len(s)], SortByDue(SubSeq(s, 1, Len(s) - 1)))

\* generateDeadlines(filingFrequency, startDate)
generateDeadlines(filingFrequency, startDate) ==
  SortByDue(PeriodLoop(filingFrequency, startDate, 0))

\* ------------------------------------------------------------------------
\* State of the deadline API routes and of the generator before any request
\* ------------------------------------------------------------------------
\* the rows of gst_deadlines
GstDeadlines == {"g1", "g2"}

\* a row of gst_deadlines as generated: status has its default, filed_at and
\* proof_url are NULL.  A nullable timestamp is the set of its values: {} is
\* NULL, {t} is the instant t
NewGstDeadline == [status |-> "upcoming", filed_at |-> {}, proof_url |-> Null]

\* no request to the deadline routes in flight
IdleHttp ==
  [route |-> Null, pc |-> "idle", status |-> 0, error |-> Null, details |-> Null,
   deadline_id |-> Null, body |-> <<>>, i |-> 0, createdDeadlines |-> <<>>,
   futureDeadlineIds |-> <<>>, reminders_scheduled |-> 0]

\* generateDeadlines not called
NotGenerated ==
  [pc |-> "idle", filingFrequency |-> "monthly",
   startDate |-> [y |-> 1, m |-> 1, d |-> 1], deadlines |-> <<>>, threw |-> FALSE]

InitWeb ==
  /\ gst_deadlines = [g \in GstDeadlines |-> NewGstDeadline]
  /\ prisma_deadline = [unique_period |-> TRUE, rows |-> <<>>]
  /\ http = IdleHttp
  /\ generated = NotGenerated
  /\ cron = [w \in Workers |-> IdleCron]

\* ------------------------------------------------------------------------
\* Initial state: the scheduler has written NumReminders pending reminders,
\* nothing is due yet, every contact is opted in, no deadline is filed
\* ------------------------------------------------------------------------
InitHist ==
  [fetches |-> [r \in Ids |-> 0],
   orphaned |-> {},
   enqueuedFor |-> <<>>,
   optedOutEarly |-> {}]

InitCommon ==
  /\ message_outbox = <<>>
  /\ deadlines = [d \in Deadlines |-> [filed_at |-> Null]]
  /\ reminders = <<>>
  /\ wk = [w \in Workers |-> IdleWorker]
  /\ result = [w \in Workers |-> ZeroResult]
  /\ req = IdleReq
  /\ sched = IdleSched(0)
  /\ InitWeb
  /\ hist = InitHist

NewContact ==
  [whatsapp_consent |-> TRUE, opt_out_at |-> Null, consent_changed_at |-> Null]

Init ==
  /\ now = 0
  /\ reminder_schedule = [r \in 1..NumReminders |-> NewReminder(r)]
  /\ contacts = [c \in {"c1"} |-> NewContact]
  /\ InitCommon

\* ------------------------------------------------------------------------
\* Drain: POST /api/cron/send-reminders
\* ------------------------------------------------------------------------

\* POST starts: now and workerId are fixed, the claim RPC is issued and its
\* statement takes its snapshot of the candidate rows
StartDrain(w) ==
  /\ wk[w].pc = "idle"
  /\ wk' = [wk EXCEPT ![w] =
       [IdleWorker EXCEPT !.pc = "claim", !.now = now,
          !.cand = {r \in Ids : ClaimableRow(reminder_schedule[r], now)}]]
  /\ result' = [result EXCEPT ![w] = ZeroResult]
  /\ UNCHANGED <<now, reminder_schedule, message_outbox, contacts, deadlines,
                 reminders, req, hist, sched, web>>

\* claim_pending_reminders, inner SELECT: visit the next candidate in send_at
\* order; pass over a locked row, otherwise lock it if it still qualifies
ClaimLockRow(w) ==
  /\ wk[w].pc = "claim"
  /\ Cardinality(wk[w].got) < BatchSize
  /\ \E r \in wk[w].cand :
       /\ OrderBySendAt(r, wk[w].cand)
       /\ wk' = [wk EXCEPT ![w].cand = @ \ {r},
                           ![w].got = IF /\ ~SkipLocked(r, w)
                                         /\ ClaimRecheck(reminder_schedule[r], wk[w].now)
                                      THEN @ \cup {r} ELSE @]
  /\ UNCHANGED <<now, reminder_schedule, message_outbox, contacts, deadlines,
                 reminders, result, req, hist, sched, web>>

\* claim_pending_reminders, outer UPDATE ... RETURNING and commit: the locked
\* rows are stamped, the locks are released, the rows are returned to POST
ClaimCommit(w) ==
  /\ wk[w].pc = "claim"
  /\ wk[w].cand = {} \/ Cardinality(wk[w].got) >= BatchSize
  /\ reminder_schedule' =
       [r \in Ids |-> IF r \in wk[w].got
                      THEN [reminder_schedule[r] EXCEPT !.claimed_by = w]
                      ELSE reminder_schedule[r]]
  /\ wk' = [wk EXCEPT ![w].pc = "loop", ![w].cand = {}, ![w].got = {},
                      ![w].todo = wk[w].got]
  /\ result' = [result EXCEPT ![w].processed = Cardinality(wk[w].got)]
  /\ UNCHANGED <<now, message_outbox, contacts, deadlines, reminders, req, hist, sched, web>>

\* processReminder, the deadline query with its inner joins: the query fails
\* (or the joins leave no row), or the deadline is filed, or a contact is found
Fetch(w) ==
  /\ wk[w].pc = "loop"
  /\ \E r \in wk[w].todo :
       LET d == reminder_schedule[r].deadline_id
           cs == AccountContacts(DeadlineAccount(d))
           elig == {c \in cs : EligibleContact(c)}
       IN /\ \/ /\ wk' = [wk EXCEPT ![w].pc = "notfound", ![w].cur = r,
                                    ![w].todo = @ \ {r}]
             \/ /\ cs # {}
                /\ deadlines[d].filed_at # Null \/ elig = {}
                /\ wk' = [wk EXCEPT ![w].pc = "skip", ![w].cur = r,
                                    ![w].todo = @ \ {r}]
             \/ /\ cs # {}
                /\ deadlines[d].filed_at = Null
                /\ \E c \in elig :
                     wk' = [wk EXCEPT ![w].pc = "enqueue", ![w].cur = r,
                                      ![w].contact = c, ![w].todo = @ \ {r}]
          /\ hist' = [hist EXCEPT !.fetches[r] = @ + 1]
  /\ UNCHANGED <<now, reminder_schedule, message_outbox, contacts, deadlines,
                 reminders, result, req, sched, web>>

\* .update({...}).eq('id', reminderId): write by primary key, no other filter
WriteReminder(r, st, sentAt, msg) ==
  /\ r \notin LockedRows
  /\ reminder_schedule' =
       [reminder_schedule EXCEPT ![r] =
          [@ EXCEPT !.status = st,
                    !.sent_at = IF sentAt THEN Ts ELSE @,
                    !.error_message = IF msg = Null THEN @ ELSE msg]]

\* variant: status 'sent' without sent_at
markReminderSent_NoSentAt(r) == WriteReminder(r, "sent", FALSE, Null)

markReminderSent(r) == WriteReminder(r, "sent", TRUE, Null)

\* variant: the skipped reminder is written as failed
markReminderSkipped_AsFailed(r) ==
  WriteReminder(r, "failed", TRUE, "Deadline already filed or no eligible contact")

markReminderSkipped(r) ==
  WriteReminder(r, "cancelled", TRUE, "Deadline already filed or no eligible contact")

\* variant: status 'failed' without the error text
markReminderFailed_NoText(r, msg) == WriteReminder(r, "failed", FALSE, Null)

markReminderFailed(r, msg) == WriteReminder(r, "failed", FALSE, msg)

NextReminder(w) == [wk EXCEPT ![w].pc = "loop", ![w].cur = 0,
                              ![w].contact = Null, ![w].err = Null]

\* processReminder: deadlineError || !deadline
NotFound(w) ==
  /\ wk[w].pc = "notfound"
  /\ markReminderFailed(wk[w].cur, "Deadline not found")
  /\ result' = [result EXCEPT ![w].failed = @ + 1,
        ![w].errors = Append(@, [reminder_id |-> wk[w].cur, error |-> "Deadline not found"])]
  /\ wk' = NextReminder(w)
  /\ UNCHANGED <<now, message_outbox, contacts, deadlines, reminders, req, hist, sched, web>>

\* variant: the skip without result.skipped++
Skip_Uncounted(w) ==
  /\ wk[w].pc = "skip"
  /\ markReminderSkipped(wk[w].cur)
  /\ wk' = NextReminder(w)
  /\ UNCHANGED <<now, message_outbox, contacts, deadlines, reminders, result, req,
                 hist, sched, web>>

\* processReminder: deadline.filed_at set, or no eligible contact
Skip(w) ==
  /\ wk[w].pc = "skip"
  /\ markReminderSkipped(wk[w].cur)
  /\ result' = [result EXCEPT ![w].skipped = @ + 1]
  /\ wk' = NextReminder(w)
  /\ UNCHANGED <<now, message_outbox, contacts, deadlines, reminders, req, hist, sched, web>>

\* processReminder: the WhatsAppTemplateParameters of a deadline
TemplateParameters(d) ==
  [gstin |-> DeadlineGstin(d), return_type |-> DeadlineReturnType(d),
   due_date |-> DueDate(d)]

\* enqueueWhatsAppMessage: insert into message_outbox, or throw on error
Enqueue(w) ==
  /\ wk[w].pc = "enqueue"
  /\ \/ /\ message_outbox' = Append(message_outbox,
             [contact_id |-> wk[w].contact,
              template_id |-> reminder_schedule[wk[w].cur].template_id,
              parameters |-> TemplateParameters(reminder_schedule[wk[w].cur].deadline_id),
              delivery_status |-> "queued"])
        /\ hist' = [hist EXCEPT !.enqueuedFor = Append(@, wk[w].cur)]
        /\ wk' = [wk EXCEPT ![w].pc = "marksent"]
     \/ /\ wk' = [wk EXCEPT ![w].pc = "catch", ![w].err = "Failed to enqueue message"]
        /\ UNCHANGED <<message_outbox, hist>>
  /\ UNCHANGED <<now, reminder_schedule, contacts, deadlines, reminders, result,
                 req, sched, web>>

\* processReminder: markReminderSent after a successful enqueue
MarkSent(w) ==
  /\ wk[w].pc = "marksent"
  /\ markReminderSent(wk[w].cur)
  /\ result' = [result EXCEPT ![w].sent = @ + 1]
  /\ wk' = NextReminder(w)
  /\ UNCHANGED <<now, message_outbox, contacts, deadlines, reminders, req, hist, sched, web>>

\* processReminder: markReminderSent whose update comes back with an error:
\* the error is not read, nothing is thrown, result.sent++ follows
MarkSentFails(w) ==
  /\ wk[w].pc = "marksent"
  /\ result' = [result EXCEPT ![w].sent = @ + 1]
  /\ wk' = NextReminder(w)
  /\ UNCHANGED <<now, reminder_schedule, message_outbox, contacts, deadlines,
                 reminders, req, hist, sched, web>>

\* processReminder: the catch block
Catch(w) ==
  /\ wk[w].pc = "catch"
  /\ markReminderFailed(wk[w].cur, wk[w].err)
  /\ result' = [result EXCEPT ![w].failed = @ + 1,
        ![w].errors = Append(@, [reminder_id |-> wk[w].cur, error |-> wk[w].err])]
  /\ wk' = NextReminder(w)
  /\ UNCHANGED <<now, message_outbox, contacts, deadlines, reminders, req, hist, sched, web>>

\* POST returns the summary (result[w] as it stands when todo is empty); the
\* invocation's locals are gone afterwards
Finish(w) ==
  /\ wk[w].pc = "loop"
  /\ wk[w].todo = {}
  /\ wk' = [wk EXCEPT ![w] = IdleWorker]
  /\ result' = [result EXCEPT ![w] = ZeroResult]
  /\ UNCHANGED <<now, reminder_schedule, message_outbox, contacts, deadlines,
                 reminders, req, hist, sched, web>>

\* the serverless invocation dies between two awaits after the claim returned;
\* the slot is free for a later invocation
Crash(w) ==
  /\ wk[w].pc \in {"loop", "notfound", "skip", "enqueue", "marksent", "catch"}
  /\ wk[w].todo # {} \/ wk[w].cur # 0
  /\ hist' = [hist EXCEPT !.orphaned = @ \cup
        {r \in wk[w].todo \cup ({wk[w].cur} \ {0}) :
            reminder_schedule[r].status = "pending"}]
  /\ wk' = [wk EXCEPT ![w] = IdleWorker]
  /\ result' = [result EXCEPT ![w] = ZeroResult]
  /\ UNCHANGED <<now, reminder_schedule, message_outbox, contacts, deadlines,
                 reminders, req, sched, web>>

\* time passes
Tick ==
  /\ now < MaxTime
  /\ now' = now + 1
  /\ UNCHANGED <<reminder_schedule, message_outbox, contacts, deadlines,
                 reminders, wk, result, req, hist, sched, web>>

Drain(w) ==
  \/ StartDrain(w) \/ ClaimLockRow(w) \/ ClaimCommit(w)
  \/ Fetch(w) \/ NotFound(w) \/ Skip(w) \/ Enqueue(w) \/ MarkSent(w)
  \/ Catch(w) \/ Finish(w)

\* ------------------------------------------------------------------------
\* Drain, the path taken when the claim RPC is missing from the database
\* ------------------------------------------------------------------------

\* the rows a SELECT ... ORDER BY send_at ASC LIMIT batchSize may return out of
\* the set rows: the order among equal send_at is the database's choice
FirstBySendAt(rows) ==
  {S \in SUBSET rows :
     /\ Cardinality(S) = Min(Cardinality(rows), BatchSize)
     /\ \A r \in S : \A q \in rows \ S :
          reminder_schedule[r].send_at <= reminder_schedule[q].send_at}

\* POST starts, the RPC answers 42883 and the candidates are selected with a
\* plain query; with no candidate POST returns the empty summary
FallbackSelect(w) ==
  /\ wk[w].pc = "idle"
  /\ \E S \in FirstBySendAt({r \in Ids : ClaimableRow(reminder_schedule[r], now)}) :
       wk' = [wk EXCEPT ![w] =
                [IdleWorker EXCEPT !.pc = IF S = {} THEN "loop" ELSE "update",
                                   !.now = now, !.cand = S]]
  /\ result' = [result EXCEPT ![w] = ZeroResult]
  /\ UNCHANGED <<now, reminder_schedule, message_outbox, contacts, deadlines,
                 reminders, req, hist, sched, web>>

\* .update({claimed_at, claimed_by}).in('id', reminderIds).is('claimed_at', null),
\* which waits for rows another transaction has locked; on updateError POST
\* returns the empty summary
FallbackUpdate(w) ==
  /\ wk[w].pc = "update"
  /\ \/ /\ wk[w].cand \cap LockedRows = {}
        /\ reminder_schedule' =
             [r \in Ids |-> IF r \in wk[w].cand /\ reminder_schedule[r].claimed_by = Null
                            THEN [reminder_schedule[r] EXCEPT !.claimed_by = w]
                            ELSE reminder_schedule[r]]
        /\ wk' = [wk EXCEPT ![w].pc = "verify"]
     \/ /\ wk' = [wk EXCEPT ![w].pc = "loop", ![w].cand = {}]
        /\ UNCHANGED reminder_schedule
  /\ UNCHANGED <<now, message_outbox, contacts, deadlines, reminders, result, req,
                 hist, sched, web>>

\* .select().in('id', reminderIds).eq('claimed_by', workerId): the rows to
\* process
FallbackVerify(w) ==
  /\ wk[w].pc = "verify"
  /\ LET verifiedReminders == {r \in wk[w].cand : reminder_schedule[r].claimed_by = w}
     IN  /\ wk' = [wk EXCEPT ![w].pc = "loop", ![w].cand = {},
                             ![w].todo = verifiedReminders]
         /\ result' = [result EXCEPT ![w].processed = Cardinality(verifiedReminders)]
  /\ UNCHANGED <<now, reminder_schedule, message_outbox, contacts, deadlines,
                 reminders, req, hist, sched, web>>

\* an invocation that finds no RPC
FallbackDrain(w) ==
  \/ FallbackSelect(w) \/ FallbackUpdate(w) \/ FallbackVerify(w)
  \/ Fetch(w) \/ NotFound(w) \/ Skip(w) \/ Enqueue(w) \/ MarkSent(w)
  \/ Catch(w) \/ Finish(w)

\* ------------------------------------------------------------------------
\* The plain-query drain: POST of app/api/cron/send-reminders/route.ts
\* ------------------------------------------------------------------------

\* variant: the where clause without sent_at and status
CronDue_AnyStatus(row, t) == row.send_at <= t

\* where: send_at <= now, sent_at null, status PENDING
CronDue(row, t) ==
  /\ row.send_at <= t
  /\ row.sent_at = Null
  /\ row.status = "pending"

\* what findMany includes of a reminder: its deadline's filed_at and, of the
\* deadline's contact, whatsapp_consent and whatsapp_number (no opt_out_at)
CronInclude(r) ==
  LET d == reminder_schedule[r].deadline_id
      c == DeadlineContact(d)
  IN  [filed |-> deadlines[d].filed_at # Null,
       contact |-> c,
       whatsapp_consent |-> contacts[c].whatsapp_consent,
       whatsapp_number |-> ContactPhone(c)]

\* findMany: the due reminders with their deadlines and contacts, as read now
CronSelect(w) ==
  /\ cron[w].pc = "idle"
  /\ \E S \in FirstBySendAt({r \in Ids : CronDue(reminder_schedule[r], now)}) :
       cron' = [cron EXCEPT ![w] =
                  [IdleCron EXCEPT !.pc = "loop", !.todo = S,
                                   !.seen = [r \in S |-> CronInclude(r)],
                                   !.result.processed = Cardinality(S)]]
  /\ UNCHANGED <<now, reminder_schedule, message_outbox, contacts, deadlines,
                 reminders, wk, result, req, sched, gst_deadlines, prisma_deadline,
                 http, generated, hist>>

\* prisma.reminderSchedule.update({ where: { id }, data }): write by primary key
CronUpdate(r, st, sentAt) ==
  reminder_schedule' =
    [reminder_schedule EXCEPT ![r] =
       [@ EXCEPT !.status = st, !.sent_at = IF sentAt THEN Ts ELSE @]]

\* the loop body up to its first await, for the next reminder: a filed
\* deadline or a contact without consent or number is skipped, by an update
\* that succeeds or throws
CronSkip(w) ==
  /\ cron[w].pc = "loop"
  /\ \E r \in cron[w].todo :
       /\ OrderBySendAt(r, cron[w].todo)
       /\ \/ cron[w].seen[r].filed
          \/ ~cron[w].seen[r].whatsapp_consent
          \/ ~cron[w].seen[r].whatsapp_number
       /\ \/ /\ CronUpdate(r, "skipped", TRUE)
             /\ cron' = [cron EXCEPT ![w].todo = @ \ {r}, ![w].result.skipped = @ + 1]
          \/ /\ cron' = [cron EXCEPT ![w].todo = @ \ {r}, ![w].cur = r,
                                      ![w].pc = "catch", ![w].err = "update failed"]
             /\ UNCHANGED reminder_schedule
  /\ UNCHANGED <<now, message_outbox, contacts, deadlines, reminders, wk, result,
                 req, sched, gst_deadlines, prisma_deadline, http, generated, hist>>

\* the loop body for a reminder that passes both checks: enqueueWhatsAppMessage
\* inserts the message or throws
CronEnqueue(w) ==
  /\ cron[w].pc = "loop"
  /\ \E r \in cron[w].todo :
       /\ OrderBySendAt(r, cron[w].todo)
       /\ ~cron[w].seen[r].filed
       /\ cron[w].seen[r].whatsapp_consent
       /\ cron[w].seen[r].whatsapp_number
       /\ \/ /\ message_outbox' = Append(message_outbox,
                  [contact_id |-> cron[w].seen[r].contact,
                   template_id |-> reminder_schedule[r].template_id,
                   parameters |-> TemplateParameters(reminder_schedule[r].deadline_id),
                   delivery_status |-> "queued"])
             /\ hist' = [hist EXCEPT !.enqueuedFor = Append(@, r)]
             /\ cron' = [cron EXCEPT ![w].todo = @ \ {r}, ![w].cur = r,
                                      ![w].pc = "marksent"]
          \/ /\ cron' = [cron EXCEPT ![w].todo = @ \ {r}, ![w].cur = r,
                                      ![w].pc = "catch",
                                      ![w].err = "Failed to enqueue message"]
             /\ UNCHANGED <<message_outbox, hist>>
  /\ UNCHANGED <<now, reminder_schedule, contacts, deadlines, reminders, wk, result,
                 req, sched, gst_deadlines, prisma_deadline, http, generated>>

\* the update to SENT after the enqueue, which succeeds or throws
CronMarkSent(w) ==
  /\ cron[w].pc = "marksent"
  /\ \/ /\ CronUpdate(cron[w].cur, "sent", TRUE)
        /\ cron' = [cron EXCEPT ![w].pc = "loop", ![w].cur = 0,
                                 ![w].result.sent = @ + 1]
     \/ /\ cron' = [cron EXCEPT ![w].pc = "catch", ![w].err = "update failed"]
        /\ UNCHANGED reminder_schedule
  /\ UNCHANGED <<now, message_outbox, contacts, deadlines, reminders, wk, result,
                 req, sched, gst_deadlines, prisma_deadline, http, generated, hist>>

\* the catch block of the loop body: the update to FAILED, then the counts
CronCatch(w) ==
  /\ cron[w].pc = "catch"
  /\ CronUpdate(cron[w].cur, "failed", FALSE)
  /\ cron' = [cron EXCEPT ![w].pc = "loop", ![w].cur = 0, ![w].err = Null,
                           ![w].result.failed = @ + 1,
                           ![w].result.errors =
                              Append(@, [reminder_id |-> cron[w].cur, error |-> cron[w].err])]
  /\ UNCHANGED <<now, message_outbox, contacts, deadlines, reminders, wk, result,
                 req, sched, gst_deadlines, prisma_deadline, http, generated, hist>>

\* POST answers 200 with the summary
CronReturn(w) ==
  /\ cron[w].pc = "loop"
  /\ cron[w].todo = {}
  /\ cron' = [cron EXCEPT ![w] = IdleCron]
  /\ UNCHANGED <<now, reminder_schedule, message_outbox, contacts, deadlines,
                 reminders, wk, result, req, sched, gst_deadlines, prisma_deadline,
                 http, generated, hist>>

CronDrain(w) ==
  \/ CronSelect(w) \/ CronSkip(w) \/ CronEnqueue(w) \/ CronMarkSent(w)
  \/ CronCatch(w) \/ CronReturn(w)

\* ------------------------------------------------------------------------
\* Consent transitions
\* ------------------------------------------------------------------------

\* trigger update_consent_changed_at (BEFORE UPDATE ON contacts), as replaced
\* by migration 006: only consent_changed_at is maintained
update_consent_changed_at(old, new) ==
  IF old.whatsapp_consent # new.whatsapp_consent \/ old.opt_out_at # new.opt_out_at
  THEN [new EXCEPT !.consent_changed_at = Ts]
  ELSE new

UpdateContact(c, new) ==
  contacts' = [contacts EXCEPT ![c] = update_consent_changed_at(contacts[c], new)]

\* history: the reminders of c's account that no drain has claimed at the
\* moment the account is left without an eligible contact; forgotten again
\* when a contact of the account becomes eligible
NoteConsentChange(c) ==
  LET a == ContactAccount(c)
      mine == {r \in Ids : DeadlineAccount(reminder_schedule[r].deadline_id) = a}
      eligAfter == {k \in AccountContacts(a) :
                      /\ contacts'[k].whatsapp_consent
                      /\ ContactPhone(k)
                      /\ contacts'[k].opt_out_at = Null}
  IN IF eligAfter # {} THEN hist.optedOutEarly \ mine
     ELSE IF EligibleContact(c)
          THEN hist.optedOutEarly \cup
                 {r \in mine : /\ reminder_schedule[r].status = "pending"
                               /\ reminder_schedule[r].claimed_by = Null
                               /\ r \notin LockedRows}
          ELSE hist.optedOutEarly

\* variant: the UPDATE without .eq('status', 'pending')
PendingRemindersForContact_AnyStatus(c) ==
  {r \in Ids : reminder_schedule[r].deadline_id \in AccountDeadlines(ContactAccount(c))}

\* variant: the account's reminders are kept while another contact of the
\* account is eligible
PendingRemindersForContact_UnlessOtherEligible(c) ==
  {r \in Ids : /\ reminder_schedule[r].deadline_id \in AccountDeadlines(ContactAccount(c))
               /\ reminder_schedule[r].status = "pending"
               /\ \A o \in AccountContacts(ContactAccount(c)) \ {c} : ~EligibleContact(o)}

\* cancelPendingRemindersForContact: the rows its UPDATE matches
PendingRemindersForContact(c) ==
  {r \in Ids : /\ reminder_schedule[r].deadline_id \in AccountDeadlines(ContactAccount(c))
               /\ reminder_schedule[r].status = "pending"}

\* cancelPendingMessagesForContact: the rows its UPDATE matches
QueuedMessagesForContact(c) ==
  {i \in 1..Len(message_outbox) : /\ message_outbox[i].contact_id = c
                                  /\ message_outbox[i].delivery_status = "queued"}

\* POST /api/settings/update with whatsapp_consent = v: the account and contact
\* are read (previousConsent), then performUpdates updates the contact row
SettingsUpdate(c, v) ==
  /\ req.pc = "idle"
  /\ \/ /\ UpdateContact(c, [contacts[c] EXCEPT !.whatsapp_consent = v])
        /\ hist' = [hist EXCEPT !.optedOutEarly = NoteConsentChange(c)]
        /\ IF v = FALSE /\ contacts[c].whatsapp_consent = TRUE
           THEN req' = [IdleReq EXCEPT !.pc = "s_cancel", !.api = "settings",
                           !.contact = c, !.tasks = {"reminders", "messages"}]
           ELSE req' = [IdleReq EXCEPT !.pc = "done", !.api = "settings",
                           !.contact = c, !.response.success = TRUE]
     \/ /\ req' = [IdleReq EXCEPT !.pc = "done", !.api = "settings",
                      !.contact = c, !.response.error = TRUE]
        /\ UNCHANGED <<contacts, hist>>
  /\ UNCHANGED <<now, reminder_schedule, message_outbox, deadlines, reminders,
                 wk, result, sched, web>>

\* variant: the UPDATE without .select('id') returns no rows to count
Counted_NoSelect(cleanup, task, ok, n) == cleanup

\* cancelledReminders?.length || 0 and cancelledMessages?.length || 0: the
\* number of rows the UPDATE returned, kept when the cancellation succeeded
Counted(cleanup, task, ok, n) ==
  IF ~ok THEN cleanup
  ELSE IF task = "reminders" THEN [cleanup EXCEPT !.cancelledReminders = n]
  ELSE [cleanup EXCEPT !.cancelledMessages = n]

\* variant: the route lets the cancellation error reach its outer catch
SettingsAfter_Rethrow(task, ok, n) ==
  req' = [req EXCEPT !.tasks = @ \ {task},
                     !.cleanupFailed = @ \/ ~ok,
                     !.cleanup = Counted(req.cleanup, task, ok, n),
                     !.pc = IF req.tasks = {task} THEN "done" ELSE @,
                     !.response.success = (req.tasks = {task}) /\ ok /\ ~req.cleanupFailed,
                     !.response.error = ~ok \/ req.cleanupFailed]

\* the settings route once a promise of cancelAllPendingReminders has settled:
\* the outcome is only logged, the response is the updated settings
SettingsAfter(task, ok, n) ==
  req' = [req EXCEPT !.tasks = @ \ {task},
                     !.cleanupFailed = @ \/ ~ok,
                     !.cleanup = Counted(req.cleanup, task, ok, n),
                     !.pc = IF req.tasks = {task} THEN "done" ELSE @,
                     !.response.success = (req.tasks = {task})]

\* cancelAllPendingReminders, first promise: cancelPendingRemindersForContact
SettingsCancelReminders ==
  /\ req.pc = "s_cancel"
  /\ "reminders" \in req.tasks
  /\ \/ /\ PendingRemindersForContact(req.contact) \cap LockedRows = {}
        /\ reminder_schedule' =
             [r \in Ids |-> IF r \in PendingRemindersForContact(req.contact)
                            THEN [reminder_schedule[r] EXCEPT !.status = "cancelled"]
                            ELSE reminder_schedule[r]]
        /\ SettingsAfter("reminders", TRUE,
                         Cardinality(PendingRemindersForContact(req.contact)))
     \/ /\ SettingsAfter("reminders", FALSE, 0)
        /\ UNCHANGED reminder_schedule
  /\ UNCHANGED <<now, message_outbox, contacts, deadlines, reminders, wk, result, hist, sched, web>>

\* cancelAllPendingReminders, second promise: cancelPendingMessagesForContact
SettingsCancelMessages ==
  /\ req.pc = "s_cancel"
  /\ "messages" \in req.tasks
  /\ \/ /\ message_outbox' =
             [i \in 1..Len(message_outbox) |->
                IF i \in QueuedMessagesForContact(req.contact)
                THEN [message_outbox[i] EXCEPT !.delivery_status = "cancelled"]
                ELSE message_outbox[i]]
        /\ SettingsAfter("messages", TRUE,
                         Cardinality(QueuedMessagesForContact(req.contact)))
     \/ /\ SettingsAfter("messages", FALSE, 0)
        /\ UNCHANGED message_outbox
  /\ UNCHANGED <<now, reminder_schedule, contacts, deadlines, reminders, wk, result, hist, sched, web>>

\* optOutContact, step 1: the contact row
OptOutContact(c) ==
  /\ req.pc = "idle"
  /\ \/ /\ UpdateContact(c, [contacts[c] EXCEPT !.whatsapp_consent = FALSE,
                                                !.opt_out_at = Ts])
        /\ hist' = [hist EXCEPT !.optedOutEarly = NoteConsentChange(c)]
        /\ req' = [IdleReq EXCEPT !.pc = "o_cancel", !.api = "optOutContact",
                                  !.contact = c]
     \/ /\ req' = [IdleReq EXCEPT !.pc = "done", !.api = "optOutContact",
                                  !.contact = c, !.response.error = TRUE]
        /\ UNCHANGED <<contacts, hist>>
  /\ UNCHANGED <<now, reminder_schedule, message_outbox, deadlines, reminders,
                 wk, result, sched, web>>

\* optOutContact, steps 2 and 3: the rows of tables reminders and messages
\* (table messages has no writer: its update matches nothing); an error of
\* either update is logged only
OptOutCancel ==
  /\ req.pc = "o_cancel"
  /\ LET hit == {i \in 1..Len(reminders) :
                   /\ reminders[i].contact_id = req.contact
                   /\ reminders[i].status \in {"scheduled", "queued", "pending"}}
     IN \/ /\ reminders' = [i \in 1..Len(reminders) |->
                              IF i \in hit THEN [reminders[i] EXCEPT !.status = "cancelled"]
                              ELSE reminders[i]]
           /\ req' = [req EXCEPT !.pc = "done", !.response.success = TRUE,
                 !.response.contactUpdated = TRUE,
                 !.response.remindersCancelled = Cardinality(hit)]
        \/ /\ req' = [req EXCEPT !.pc = "done", !.response.success = TRUE,
                 !.response.contactUpdated = TRUE, !.cleanupFailed = TRUE]
           /\ UNCHANGED reminders
  /\ UNCHANGED <<now, reminder_schedule, message_outbox, contacts, deadlines,
                 wk, result, hist, sched, web>>

\* optInContact (both variants write the same consent fields)
OptInContact(c) ==
  /\ req.pc = "idle"
  /\ \/ /\ UpdateContact(c, [contacts[c] EXCEPT !.whatsapp_consent = TRUE,
                                                !.opt_out_at = Null])
        /\ hist' = [hist EXCEPT !.optedOutEarly = NoteConsentChange(c)]
        /\ req' = [IdleReq EXCEPT !.pc = "done", !.api = "optInContact",
                                  !.contact = c, !.response.success = TRUE]
     \/ /\ req' = [IdleReq EXCEPT !.pc = "done", !.api = "optInContact",
                                  !.contact = c, !.response.error = TRUE]
        /\ UNCHANGED <<contacts, hist>>
  /\ UNCHANGED <<now, reminder_schedule, message_outbox, deadlines, reminders,
                 wk, result, sched, web>>

\* the consent request has answered its caller
Return ==
  /\ req.pc = "done"
  /\ req' = IdleReq
  /\ UNCHANGED <<now, reminder_schedule, message_outbox, contacts, deadlines,
                 reminders, wk, result, hist, sched, web>>

\* scheduleReminder of the contact-keyed variant: consent check, then insert
ScheduleReminder(c) ==
  /\ Len(reminders) < MaxContactReminders
  /\ contacts[c].whatsapp_consent = TRUE /\ contacts[c].opt_out_at = Null
  /\ reminders' = Append(reminders, [contact_id |-> c, status |-> "scheduled"])
  /\ UNCHANGED <<now, reminder_schedule, message_outbox, contacts, deadlines,
                 wk, result, req, hist, sched, web>>

\* ------------------------------------------------------------------------
\* Filing: an UPDATE of deadlines.filed_at fires trigger
\* cancel_reminders_on_filed
\* ------------------------------------------------------------------------
\* variant: the trigger's UPDATE without AND status = 'pending'
cancel_reminders_on_deadline_filed_AnyStatus(d, old, new) ==
  IF new.filed_at # Null /\ (old.filed_at = Null \/ old.filed_at # new.filed_at)
  THEN [r \in Ids |->
          IF reminder_schedule[r].deadline_id = d
          THEN [reminder_schedule[r] EXCEPT !.status = "cancelled",
                                            !.error_message = "Deadline was filed early"]
          ELSE reminder_schedule[r]]
  ELSE reminder_schedule

cancel_reminders_on_deadline_filed(d, old, new) ==
  IF new.filed_at # Null /\ (old.filed_at = Null \/ old.filed_at # new.filed_at)
  THEN [r \in Ids |->
          IF /\ reminder_schedule[r].deadline_id = d
             /\ reminder_schedule[r].status = "pending"
             /\ reminder_schedule[r].sent_at = Null
          THEN [reminder_schedule[r] EXCEPT !.status = "cancelled",
                                            !.error_message = "Deadline was filed early"]
          ELSE reminder_schedule[r]]
  ELSE reminder_schedule

DeadlineFiled(d) ==
  /\ deadlines[d].filed_at = Null
  /\ {r \in Ids : reminder_schedule[r].deadline_id = d} \cap LockedRows = {}
  /\ deadlines' = [deadlines EXCEPT ![d].filed_at = Ts]
  /\ reminder_schedule' = cancel_reminders_on_deadline_filed(d, deadlines[d], deadlines'[d])
  /\ UNCHANGED <<now, message_outbox, contacts, reminders, wk, result, req, hist, sched, web>>

\* ------------------------------------------------------------------------
\* Transport: a queued message is handed to the provider and its outcome is
\* recorded (getPendingMessages, markMessageAsSent / markMessageAsFailed)
\* ------------------------------------------------------------------------
DeliverMessage(i, outcome) ==
  /\ i \in 1..Len(message_outbox)
  /\ message_outbox[i].delivery_status = "queued"
  /\ message_outbox' = [message_outbox EXCEPT ![i].delivery_status = outcome]
  /\ UNCHANGED <<now, reminder_schedule, contacts, deadlines, reminders, wk,
                 result, req, hist, sched, web>>

Consent ==
  \/ \E c \in Contacts : \E v \in BOOLEAN : SettingsUpdate(c, v)
  \/ SettingsCancelReminders
  \/ SettingsCancelMessages
  \/ \E c \in Contacts : OptOutContact(c)
  \/ OptOutCancel
  \/ \E c \in Contacts : OptInContact(c)
  \/ Return

\* ------------------------------------------------------------------------
\* Scheduler: createReminderSchedule and createReminderSchedules.  Here an
\* instant is a number of hours since 00:00 UTC of day 0, and a zone is the
\* number of hours the server's local time is ahead of UTC
\* ------------------------------------------------------------------------
\* an id that names no row of deadlines
UnknownDeadline == "d0"

\* zones the server process may run in
TzOffsets == {-5, 0, 5}

\* days before the due date, by position in Templates
DayOffsets == <<3, 1, 0>>

\* new Date('YYYY-MM-DD'): the instant of 00:00 UTC of that day
ParseDate(day) == 24 * day

\* getDate(): the local calendar day of instant t in zone z
LocalDay(t, z) == (t + z) \div 24

\* setDate(getDate() - k) then setHours(9, 0, 0, 0) on new Date(due_date):
\* the instant of 09:00 local time, k days before the local day of the
\* parsed date
SendAt(due, k, z) == 24 * (LocalDay(ParseDate(due), z) - k) + 9 - z

\* tMinus3 > now, tMinus1 > now, dueDay > now
IsFuture(at, t) == at > t

\* remindersToCreate: the positions in Templates of the candidates kept
RemindersToCreate(d, t, z) ==
  {k \in 1..Len(Templates) : IsFuture(SendAt(DueDate(d), DayOffsets[k], z), t)}

ReminderRow(d, k, z) ==
  [deadline_id |-> d, template_id |-> Templates[k],
   send_at |-> SendAt(DueDate(d), DayOffsets[k], z), status |-> "pending",
   claimed_by |-> Null, sent_at |-> Null, error_message |-> Null]

\* variant: the filed check left out
IsFiled_Never(deadline) == FALSE

\* if (deadline.filed_at)
IsFiled(deadline) == deadline.filed_at # Null

\* createReminderSchedules(deadlineIds): one createReminderSchedule promise
\* per element of deadlineIds
SchedStart(ids) ==
  /\ sched.pc \in {"idle", "done"}
  /\ sched' = [sched EXCEPT !.pc = "running", !.ids = ids,
                            !.call = [i \in 1..Len(ids) |-> NewCall],
                            !.results = <<>>]
  /\ UNCHANGED <<now, reminder_schedule, message_outbox, contacts, deadlines,
                 reminders, wk, result, req, hist, web>>

\* createReminderSchedule up to its insert: the deadline is read; an unknown
\* id throws, a filed deadline and an empty candidate list return the empty
\* result
SchedRead(i) ==
  /\ sched.pc = "running"
  /\ i \in 1..Len(sched.ids)
  /\ sched.call[i].pc = "read"
  /\ LET d == sched.ids[i] IN
       sched' =
         IF d \notin Deadlines
         THEN [sched EXCEPT !.call[i].pc = "rejected",
                            !.call[i].error = "Deadline not found"]
         ELSE IF IsFiled(deadlines[d])
         THEN [sched EXCEPT !.call[i].pc = "fulfilled",
                            !.call[i].filed_at = deadlines[d].filed_at]
         ELSE IF RemindersToCreate(d, now, sched.tz) = {}
         THEN [sched EXCEPT !.call[i].pc = "fulfilled",
                            !.call[i].filed_at = deadlines[d].filed_at]
         ELSE [sched EXCEPT !.call[i].pc = "insert",
                            !.call[i].filed_at = deadlines[d].filed_at,
                            !.call[i].rows = RemindersToCreate(d, now, sched.tz)]
  /\ UNCHANGED <<now, reminder_schedule, message_outbox, contacts, deadlines,
                 reminders, wk, result, req, hist, web>>

\* rows of reminder_schedule that constraint unique_deadline_template sets
\* against an insert of templates ks for deadline d
Conflicts_None(d, ks) == {}

Conflicts(d, ks) ==
  {r \in Ids : /\ reminder_schedule[r].deadline_id = d
               /\ \E k \in ks : reminder_schedule[r].template_id = Templates[k]}

\* the position of k among the candidates ks, which are pushed in the order
\* of Templates
Position(k, ks) == Cardinality({j \in ks : j <= k})

\* the insert of createReminderSchedule, one statement: all the rows or, on
\* any error, none and the call throws
SchedInsert(i, ok) ==
  /\ sched.pc = "running"
  /\ i \in 1..Len(sched.ids)
  /\ sched.call[i].pc = "insert"
  /\ LET d  == sched.ids[i]
         ks == sched.call[i].rows
         n  == Cardinality(Ids)
     IN  IF ~ok
         THEN /\ sched' = [sched EXCEPT !.call[i].pc = "rejected",
                                        !.call[i].error = "Failed to create reminders: insert error"]
              /\ UNCHANGED <<reminder_schedule, hist>>
         ELSE IF Conflicts(d, ks) # {}
         THEN /\ sched' = [sched EXCEPT !.call[i].pc = "rejected",
                                        !.call[i].error = "Failed to create reminders: duplicate key"]
              /\ UNCHANGED <<reminder_schedule, hist>>
         ELSE /\ reminder_schedule' =
                   [r \in 1..(n + Cardinality(ks)) |->
                      IF r <= n THEN reminder_schedule[r]
                      ELSE ReminderRow(d, CHOOSE k \in ks : Position(k, ks) = r - n, sched.tz)]
              /\ hist' = [hist EXCEPT !.fetches =
                            [r \in 1..(n + Cardinality(ks)) |->
                               IF r <= n THEN hist.fetches[r] ELSE 0]]
              /\ sched' = [sched EXCEPT !.call[i].pc = "fulfilled",
                                        !.call[i].created = (n + 1)..(n + Cardinality(ks))]
  /\ UNCHANGED <<now, message_outbox, contacts, deadlines, reminders, wk,
                 result, req, web>>

\* variant: result.value taken from every promise, rejected or not
Settled_ValueOnly(id, call) ==
  [deadline_id |-> IF call.pc = "fulfilled" THEN id ELSE Null,
   reminders_created |-> Cardinality(call.created),
   reminders |-> call.created]

\* the entry of a settled promise: a rejected one becomes the empty result of
\* its own deadline id
Settled(id, call) ==
  [deadline_id |-> id,
   reminders_created |-> IF call.pc = "fulfilled" THEN Cardinality(call.created) ELSE 0,
   reminders |-> IF call.pc = "fulfilled" THEN call.created ELSE {}]

\* Promise.allSettled has settled: the results, one per input id, in order
SchedReturn ==
  /\ sched.pc = "running"
  /\ \A i \in 1..Len(sched.ids) : sched.call[i].pc \in {"fulfilled", "rejected"}
  /\ sched' = [sched EXCEPT !.pc = "done",
                            !.results = [i \in 1..Len(sched.ids) |->
                                           Settled(sched.ids[i], sched.call[i])]]
  /\ UNCHANGED <<now, reminder_schedule, message_outbox, contacts, deadlines,
                 reminders, wk, result, req, hist, web>>

\* time passes between scheduling calls; a call takes less than an hour
AdvanceClock(t) ==
  /\ sched.pc # "running"
  /\ t > now
  /\ now' = t
  /\ UNCHANGED <<reminder_schedule, message_outbox, contacts, deadlines,
                 reminders, wk, result, req, sched, hist, web>>

\* ------------------------------------------------------------------------
\* A call of generateDeadlines
\* ------------------------------------------------------------------------
\* the function runs to its return statement: it has no throw, and the
\* date-fns functions it calls do not throw on valid dates
CallGenerateDeadlines ==
  /\ generated.pc = "called"
  /\ generated' = [generated EXCEPT
                     !.pc = "returned",
                     !.deadlines = generateDeadlines(generated.filingFrequency,
                                                     generated.startDate),
                     !.threw = FALSE]
  /\ UNCHANGED <<now, reminder_schedule, message_outbox, contacts, deadlines,
                 reminders, wk, result, req, sched, gst_deadlines, prisma_deadline,
                 http, cron, hist>>

\* ------------------------------------------------------------------------
\* POST /api/deadlines/mark-filed
\* ------------------------------------------------------------------------
\* an id that names no row of gst_deadlines
UnknownGstDeadline == "g0"

\* .select().single(): the one row, or an error when the statement returned
\* no row or more than one
Single(rows) ==
  IF Cardinality(rows) = 1
  THEN [data |-> CHOOSE g \in rows : TRUE, error |-> Null]
  ELSE [data |-> Null, error |-> "JSON object requested, multiple (or no) rows returned"]

\* the response of the route
Respond(route, deadline_id, status, error, details) ==
  [IdleHttp EXCEPT !.route = route, !.pc = "done", !.deadline_id = deadline_id,
                   !.status = status, !.error = error, !.details = details]

\* POST: one UPDATE of gst_deadlines by id, then the response; dbOk is false
\* when the statement itself fails
MarkFiledPOST(deadline_id, proof_url, dbOk) ==
  /\ http.pc \in {"idle", "done"}
  /\ IF deadline_id = Null
     THEN /\ http' = Respond("mark-filed", deadline_id, 400, "deadline_id is required", Null)
          /\ UNCHANGED gst_deadlines
     ELSE IF ~dbOk
     THEN /\ http' = Respond("mark-filed", deadline_id, 500,
                                  "Failed to update deadline", "statement failed")
          /\ UNCHANGED gst_deadlines
     ELSE LET matched == {g \in DOMAIN gst_deadlines : g = deadline_id}
              updated == Single(matched)
          IN  /\ gst_deadlines' =
                   [g \in DOMAIN gst_deadlines |->
                      IF g \in matched
                      THEN [gst_deadlines[g] EXCEPT !.status = "filed",
                                                    !.filed_at = {now},
                                                    !.proof_url = proof_url]
                      ELSE gst_deadlines[g]]
              /\ http' =
                   IF updated.error # Null
                   THEN Respond("mark-filed", deadline_id, 500,
                                "Failed to update deadline", updated.error)
                   ELSE IF updated.data = Null
                   THEN Respond("mark-filed", deadline_id, 404, "Deadline not found", Null)
                   ELSE Respond("mark-filed", deadline_id, 200, Null, Null)
  /\ UNCHANGED <<now, reminder_schedule, message_outbox, contacts, deadlines,
                 reminders, wk, result, req, sched, prisma_deadline, generated, cron, hist>>

\* ------------------------------------------------------------------------
\* POST /api/deadlines/generate.  prisma_deadline.rows are the rows written by
\* prisma.deadline.create; unique_period tells whether the table they go to
\* has a unique index on (entity, return type, period)
\* ------------------------------------------------------------------------
\* an id that names no contact
UnknownContact == "c0"

\* the ids prisma.deadline.create gives to the rows, in order of creation
PrismaIds == <<"p1", "p2", "p3", "p4">>

\* new Date(due_date): the instant, or an invalid date
NewDate(str) ==
  IF str = "1970-01-01" THEN [isNaN |-> FALSE, getTime |-> 0]
  ELSE IF str = "1970-01-03" THEN [isNaN |-> FALSE, getTime |-> 2]
  ELSE [isNaN |-> TRUE, getTime |-> 0]

\* the items of body.deadlines tried: two well-formed ones, one without
\* return_type, one whose due_date is no date
DeadlineItems ==
  {[return_type |-> "GSTR-1", period |-> "2024-01", due_date |-> "1970-01-03"],
   [return_type |-> "GSTR-3B", period |-> "2024-01", due_date |-> "1970-01-01"],
   [return_type |-> Null, period |-> "2024-01", due_date |-> "1970-01-03"],
   [return_type |-> "GSTR-1", period |-> "2024-02", due_date |-> "soon"]}

\* the request bodies tried: one item, or two
GenerateBodies ==
  {[contact_id |-> c, gstin |-> "29ABCDE1234F1Z5", deadlines |-> ds] :
     c \in {"c1", UnknownContact, Null},
     ds \in {<<a>> : a \in DeadlineItems} \cup {<<a, b>> : a, b \in DeadlineItems}}

\* the response of the generate route; the request's locals stay readable
RespondGenerate(status, error) ==
  [http EXCEPT !.pc = "done", !.status = status, !.error = error]

\* POST up to the loop: the body is checked, the contact is looked up
GeneratePOST(body) ==
  /\ http.pc \in {"idle", "done"}
  /\ Len(prisma_deadline.rows) + Len(body.deadlines) <= Len(PrismaIds)
  /\ http' =
       LET h == [IdleHttp EXCEPT !.route = "generate", !.body = body] IN
       IF body.contact_id = Null
       THEN [h EXCEPT !.pc = "done", !.status = 400, !.error = "Invalid request body"]
       ELSE IF body.contact_id \notin Contacts
       THEN [h EXCEPT !.pc = "done", !.status = 404, !.error = "Contact not found"]
       ELSE [h EXCEPT !.pc = "loop", !.i = 1]
  /\ UNCHANGED <<now, reminder_schedule, message_outbox, contacts, deadlines,
                 reminders, wk, result, req, sched, gst_deadlines, prisma_deadline,
                 generated, cron, hist>>

\* rows of the table with the entity, return type and period of a new row
SamePeriod(body, item) ==
  {k \in 1..Len(prisma_deadline.rows) :
     /\ prisma_deadline.rows[k].gstin = body.gstin
     /\ prisma_deadline.rows[k].return_type = item.return_type
     /\ prisma_deadline.rows[k].period = item.period}

\* one pass of the loop over body.deadlines: the item is checked, then
\* created; a create that the unique index refuses throws, and the catch
\* block answers 500
GenerateItem ==
  /\ http.route = "generate"
  /\ http.pc = "loop"
  /\ http.i <= Len(http.body.deadlines)
  /\ LET item == http.body.deadlines[http.i]
         dueDate == NewDate(item.due_date)
         id == PrismaIds[Len(prisma_deadline.rows) + 1]
     IN  IF item.return_type = Null \/ item.period = Null \/ item.due_date = Null
         THEN /\ http' = RespondGenerate(400, "Invalid deadline data")
              /\ UNCHANGED prisma_deadline
         ELSE IF dueDate.isNaN
         THEN /\ http' = RespondGenerate(400, "Invalid due_date")
              /\ UNCHANGED prisma_deadline
         ELSE IF prisma_deadline.unique_period /\ SamePeriod(http.body, item) # {}
         THEN /\ http' = RespondGenerate(500, "Internal server error")
              /\ UNCHANGED prisma_deadline
         ELSE /\ prisma_deadline' =
                   [prisma_deadline EXCEPT !.rows = Append(@,
                      [id |-> id, contact_id |-> http.body.contact_id,
                       gstin |-> http.body.gstin, return_type |-> item.return_type,
                       period |-> item.period, due_date |-> dueDate.getTime,
                       status |-> "pending"])]
              /\ http' = [http EXCEPT !.i = @ + 1,
                            !.createdDeadlines = Append(@, id),
                            !.futureDeadlineIds =
                               IF dueDate.getTime > now THEN Append(@, id) ELSE @]
  /\ UNCHANGED <<now, reminder_schedule, message_outbox, contacts, deadlines,
                 reminders, wk, result, req, sched, gst_deadlines, generated, cron, hist>>

\* after the loop: createReminderSchedules(futureDeadlineIds) is called when
\* there is a future deadline, otherwise the route answers 201
GenerateSchedule ==
  /\ http.route = "generate"
  /\ http.pc = "loop"
  /\ http.i > Len(http.body.deadlines)
  /\ IF http.futureDeadlineIds # <<>>
     THEN /\ sched.pc \in {"idle", "done"}
          /\ sched' = [sched EXCEPT !.pc = "running", !.ids = http.futureDeadlineIds,
                          !.call = [i \in 1..Len(http.futureDeadlineIds) |-> NewCall],
                          !.results = <<>>]
          /\ http' = [http EXCEPT !.pc = "scheduling"]
     ELSE /\ http' = RespondGenerate(201, Null)
          /\ UNCHANGED sched
  /\ UNCHANGED <<now, reminder_schedule, message_outbox, contacts, deadlines,
                 reminders, wk, result, req, gst_deadlines, prisma_deadline,
                 generated, cron, hist>>

RECURSIVE SumCreated(_)
SumCreated(results) ==
  IF results = <<>> THEN 0
  ELSE Head(results).reminders_created + SumCreated(Tail(results))

\* createReminderSchedules has returned: the route answers 201
GenerateReturn ==
  /\ http.route = "generate"
  /\ http.pc = "scheduling"
  /\ sched.pc = "done"
  /\ http' = [RespondGenerate(201, Null) EXCEPT
                 !.reminders_scheduled = SumCreated(sched.results)]
  /\ UNCHANGED <<now, reminder_schedule, message_outbox, contacts, deadlines,
                 reminders, wk, result, req, sched, gst_deadlines, prisma_deadline,
                 generated, cron, hist>>

\* ------------------------------------------------------------------------
\* Specifications
\* ------------------------------------------------------------------------

\* the account's contact has given WhatsApp consent or not (the column's
\* default is false)
InitDrain ==
  /\ now = 0
  /\ reminder_schedule = [r \in 1..NumReminders |-> NewReminder(r)]
  /\ \E g \in BOOLEAN :
       contacts = [c \in {"c1"} |-> [NewContact EXCEPT !.whatsapp_consent = g]]
  /\ InitCommon

\* concurrent drain invocations, any of which may die after its claim; the
\* cron service keeps invoking the route and every invocation that is not
\* killed keeps running
Next ==
  \/ \E w \in Workers : Drain(w)
  \/ \E w \in Workers : Crash(w)
  \/ Tick

Spec ==
  /\ InitDrain
  /\ [][Next]_vars
  /\ \A w \in Workers : WF_vars(Drain(w))
  /\ WF_vars(Tick)

\* concurrent drain invocations of a database without the claim RPC, while
\* deadlines are being filed
NextFallback ==
  \/ \E w \in Workers : FallbackDrain(w)
  \/ \E d \in Deadlines : DeadlineFiled(d)
  \/ Tick

SpecFallback == InitDrain /\ [][NextFallback]_vars

\* two claim calls, one per worker, against the same rows with the same p_now
InitClaim ==
  /\ now \in 1..SeedSendAt(NumClaimRows)
  /\ reminder_schedule = [r \in 1..NumClaimRows |-> NewReminder(r)]
  /\ contacts = [c \in {"c1"} |-> NewContact]
  /\ InitCommon

NextClaim ==
  \E w \in Workers : StartDrain(w) \/ ClaimLockRow(w) \/ ClaimCommit(w)

SpecClaim == InitClaim /\ [][NextClaim]_vars

\* one drain invocation at a time, the consent requests of the account's
\* contact, and the transport
NextPipeline ==
  \/ Drain("w1")
  \/ Consent
  \/ \E i \in 1..Len(message_outbox) : \E o \in {"sent", "failed"} : DeliverMessage(i, o)
  \/ Tick

SpecPipeline == Init /\ [][NextPipeline]_vars

\* the same with deadlines being filed
NextFiling ==
  \/ NextPipeline
  \/ \E d \in Deadlines : DeadlineFiled(d)

SpecFiling == Init /\ [][NextFiling]_vars

\* overlapping invocations of the plain-query drain
NextCron ==
  \/ \E w \in Workers : CronDrain(w)
  \/ Tick

SpecCron == InitDrain /\ [][NextCron]_vars

\* one invocation of the plain-query drain at a time and the consent requests
\* of the contact
NextCronConsent ==
  \/ CronDrain("w1")
  \/ Consent
  \/ Tick

SpecCronConsent == Init /\ [][NextCronConsent]_vars

\* one drain invocation at a time, whose writes of 'sent' may fail, while
\* deadlines are being filed
NextSent ==
  \/ Drain("w1")
  \/ MarkSentFails("w1")
  \/ \E d \in Deadlines : DeadlineFiled(d)
  \/ Tick

SpecSent == InitDrain /\ [][NextSent]_vars

\* one drain invocation at a time, of an account whose contact has given
\* consent or has not, while deadlines are being filed
NextSkip ==
  \/ Drain("w1")
  \/ \E d \in Deadlines : DeadlineFiled(d)
  \/ Tick

SpecSkip == InitDrain /\ [][NextSkip]_vars

\* every reminder is due; one drain invocation at a time, the consent requests
\* of the account's contact and the contact-keyed scheduling
InitDue ==
  /\ now = SeedSendAt(NumReminders)
  /\ reminder_schedule = [r \in 1..NumReminders |-> NewReminder(r)]
  /\ contacts = [c \in {"c1"} |-> NewContact]
  /\ InitCommon

NextOptOut ==
  \/ Drain("w1")
  \/ Consent
  \/ \E c \in Contacts : ScheduleReminder(c)

SpecOptOut == InitDue /\ [][NextOptOut]_vars

\* one drain invocation at a time while deadlines are being filed
NextFiled ==
  \/ Drain("w1")
  \/ \E d \in Deadlines : DeadlineFiled(d)

SpecFiled == InitDue /\ [][NextFiled]_vars

\* the consent requests of two contacts of one account, with both reminder
\* tables populated
InitConsent ==
  /\ now = 0
  /\ reminder_schedule = [r \in 1..NumReminders |-> NewReminder(r)]
  /\ contacts = [c \in AllContacts |-> NewContact]
  /\ InitCommon

NextConsent ==
  \/ Consent
  \/ \E c \in Contacts : ScheduleReminder(c)

SpecConsent == InitConsent /\ [][NextConsent]_vars

\* scheduling calls, one batch at a time, against an empty reminder_schedule,
\* while time passes and deadlines are being filed
\* the instants the clock is read at: hour 0 and each send time of zone z
ClockTimes(z) ==
  {SendAt(DueDate(d), DayOffsets[k], z) : d \in Deadlines, k \in 1..Len(DayOffsets)}

\* the deadlineIds of a call: one id, or two that may be the same
IdLists ==
  {<<a>> : a \in Deadlines \cup {UnknownDeadline}}
    \cup {<<a, b>> : a, b \in Deadlines \cup {UnknownDeadline}}

InitSchedule ==
  /\ now = 0
  /\ reminder_schedule = <<>>
  /\ contacts = [c \in {"c1"} |-> NewContact]
  /\ message_outbox = <<>>
  /\ deadlines = [d \in Deadlines |-> [filed_at |-> Null]]
  /\ reminders = <<>>
  /\ wk = [w \in Workers |-> IdleWorker]
  /\ result = [w \in Workers |-> ZeroResult]
  /\ req = IdleReq
  /\ \E z \in TzOffsets : sched = IdleSched(z)
  /\ InitWeb
  /\ hist = InitHist

NextSchedule ==
  \/ \E ids \in IdLists : SchedStart(ids)
  \/ \E i \in DOMAIN sched.call : SchedRead(i)
  \/ \E i \in DOMAIN sched.call : \E ok \in BOOLEAN : SchedInsert(i, ok)
  \/ SchedReturn
  \/ \E t \in ClockTimes(sched.tz) : AdvanceClock(t)
  \/ \E d \in Deadlines : DeadlineFiled(d)

SpecSchedule == InitSchedule /\ [][NextSchedule]_vars

\* requests to mark-filed, for the rows of gst_deadlines and for an id that
\* names none, while time passes
NextMarkFiled ==
  \/ \E g \in GstDeadlines \cup {UnknownGstDeadline, Null} :
       \E u \in {Null, "proof"} : \E dbOk \in BOOLEAN : MarkFiledPOST(g, u, dbOk)
  \/ Tick

SpecMarkFiled == Init /\ [][NextMarkFiled]_vars

\* requests to the generate route, one at a time, with the scheduling calls
\* they make; the table the rows go to has the unique index or has not
InitGenerate ==
  /\ now = 0
  /\ reminder_schedule = <<>>
  /\ contacts = [c \in {"c1"} |-> NewContact]
  /\ message_outbox = <<>>
  /\ deadlines = [d \in Deadlines |-> [filed_at |-> Null]]
  /\ reminders = <<>>
  /\ wk = [w \in Workers |-> IdleWorker]
  /\ result = [w \in Workers |-> ZeroResult]
  /\ req = IdleReq
  /\ sched = IdleSched(0)
  /\ gst_deadlines = [g \in GstDeadlines |-> NewGstDeadline]
  /\ \E u \in BOOLEAN : prisma_deadline = [unique_period |-> u, rows |-> <<>>]
  /\ http = IdleHttp
  /\ generated = NotGenerated
  /\ cron = [w \in Workers |-> IdleCron]
  /\ hist = InitHist

NextGenerate ==
  \/ \E body \in GenerateBodies : GeneratePOST(body)
  \/ GenerateItem
  \/ GenerateSchedule
  \/ GenerateReturn
  \/ \E i \in DOMAIN sched.call : SchedRead(i)
  \/ SchedReturn

SpecGenerate == InitGenerate /\ [][NextGenerate]_vars

\* generateDeadlines called with each frequency, one outside the type
\* included, and each day of the years FirstYear to LastYear as startDate
StartDates ==
  UNION {{[y |-> y, m |-> m, d |-> d] : d \in 1..DaysInMonth(y, m)} :
           y \in FirstYear..LastYear, m \in 1..12}

InitGenerator ==
  /\ now = 0
  /\ reminder_schedule = <<>>
  /\ contacts = [c \in {"c1"} |-> NewContact]
  /\ message_outbox = <<>>
  /\ deadlines = [d \in Deadlines |-> [filed_at |-> Null]]
  /\ reminders = <<>>
  /\ wk = [w \in Workers |-> IdleWorker]
  /\ result = [w \in Workers |-> ZeroResult]
  /\ req = IdleReq
  /\ sched = IdleSched(0)
  /\ gst_deadlines = [g \in GstDeadlines |-> NewGstDeadline]
  /\ prisma_deadline = [unique_period |-> TRUE, rows |-> <<>>]
  /\ http = IdleHttp
  /\ \E f \in {"monthly", "quarterly", OtherFrequency} : \E sd \in StartDates :
       generated = [NotGenerated EXCEPT !.pc = "called", !.filingFrequency = f,
                                        !.startDate = sd]
  /\ cron = [w \in Workers |-> IdleCron]
  /\ hist = InitHist

NextGenerator == CallGenerateDeadlines

SpecGenerator == InitGenerator /\ [][NextGenerator]_vars

\* ------------------------------------------------------------------------
\* Properties
\* ------------------------------------------------------------------------
IsTerminal(r) == reminder_schedule[r].status \in Terminal

MessagesFor(r) == {i \in 1..Len(hist.enqueuedFor) : hist.enqueuedFor[i] = r}

\* the rows eligible for the two claim calls of SpecClaim: every row starts
\* pending and unclaimed, and p_now is the same for both calls
EligibleSet == {r \in Ids : reminder_schedule[r].send_at <= now}

BothReturned == \A w \in Workers : wk[w].pc = "loop"

Returned(w) == wk[w].todo

\* C1 (as stated): two concurrent claim calls against the same pending, due
\* reminders with the same batch size return disjoint sets whose union is the
\* eligible set.
C1_UnionIsEligibleSet ==
  BothReturned =>
    /\ Returned("w1") \cap Returned("w2") = {}
    /\ Returned("w1") \cup Returned("w2") = EligibleSet

\* C1 (amended): the two calls return disjoint subsets of the eligible set of
\* at most batchSize reminders each, and their union holds
\* min(|eligible|, 2 * batchSize) reminders: it is the whole eligible set
\* exactly when that set has at most 2 * batchSize reminders.
C1_DisjointUpToTwoBatches ==
  BothReturned =>
    /\ Returned("w1") \cap Returned("w2") = {}
    /\ Returned("w1") \cup Returned("w2") \subseteq EligibleSet
    /\ \A w \in Workers : Cardinality(Returned(w)) <= BatchSize
    /\ Cardinality(Returned("w1") \cup Returned("w2"))
         = Min(Cardinality(EligibleSet), 2 * BatchSize)

C1_Witness ==
  /\ BothReturned
  /\ Returned("w1") # {}
  /\ Returned("w2") # {}
  /\ Returned("w1") \cup Returned("w2") = EligibleSet

\* C2: a reminder whose claim stamp is set is never stamped again by a later
\* or concurrent claim, and per-reminder processing starts at most once for
\* any reminder.
C2_ClaimedAtMostOnce ==
  [][\A r \in Ids :
       /\ reminder_schedule[r].claimed_by # Null
            => reminder_schedule'[r].claimed_by = reminder_schedule[r].claimed_by
       /\ hist'.fetches[r] <= 1]_vars

C2_Witness ==
  /\ \A r \in Ids : reminder_schedule[r].claimed_by # Null /\ hist.fetches[r] = 1
  /\ reminder_schedule[1].claimed_by # reminder_schedule[2].claimed_by

\* C3: a reminder claimed by a worker that crashed before writing its terminal
\* status is eventually processed and reaches sent, failed or cancelled, under
\* continued drain invocations.
C3_OrphanEventuallyTerminal ==
  \A r \in 1..NumReminders : (r \in hist.orphaned) ~> IsTerminal(r)

\* C4: at most one Outbound Message is ever enqueued for any reminder.
C4_AtMostOneMessage == \A r \in Ids : Cardinality(MessagesFor(r)) <= 1

C4_Witness ==
  /\ \A r \in Ids : Cardinality(MessagesFor(r)) = 1
  /\ \E r \in Ids : reminder_schedule[r].claimed_by = "w1"
  /\ \E r \in Ids : reminder_schedule[r].claimed_by = "w2"

\* C5: once a reminder is sent, failed or cancelled, no later write changes
\* its status.
C5_TerminalStatusIsFinal ==
  [][\A r \in Ids :
       IsTerminal(r) => reminder_schedule'[r].status = reminder_schedule[r].status]_vars

\* a consent request for c is still running
InFlight(c) == req.pc # "idle" /\ req.contact = c

\* C6: no Outbound Message is enqueued for a contact that is not eligible when
\* the message is inserted, and once the contact's opt-out has completed none
\* of its messages is queued.
C6_OptedOutNeverDeliverable ==
  [][/\ Len(message_outbox') > Len(message_outbox)
          => EligibleContact(message_outbox'[Len(message_outbox')].contact_id)
     /\ \A c \in Contacts :
          (~contacts'[c].whatsapp_consent /\ ~(req'.pc # "idle" /\ req'.contact = c))
            => \A i \in 1..Len(message_outbox') :
                 message_outbox'[i].contact_id = c
                   => message_outbox'[i].delivery_status # "queued"]_vars

\* C7: a reminder that no drain had claimed when its account's contact opted
\* out is never sent and gets no Outbound Message: the opt-out or the drain
\* leaves it cancelled (failed only when the drain's deadline query failed).
C7_OptOutBeforeDrainCancels ==
  \A r \in hist.optedOutEarly :
    /\ MessagesFor(r) = {}
    /\ \/ reminder_schedule[r].status \in {"pending", "cancelled"}
       \/ /\ reminder_schedule[r].status = "failed"
          /\ reminder_schedule[r].error_message = "Deadline not found"

C7_Witness ==
  \E r \in hist.optedOutEarly :
    /\ hist.fetches[r] = 1
    /\ reminder_schedule[r].status = "cancelled"
    /\ reminder_schedule[r].error_message = "Deadline already filed or no eligible contact"

\* a step of an opt-out: the cancellations of the settings route and the
\* steps of optOutContact
OptOutStep ==
  \/ SettingsCancelReminders
  \/ SettingsCancelMessages
  \/ \E c \in Contacts : OptOutContact(c)
  \/ OptOutCancel

\* C8: an opt-out changes the status of reminders only from pending to
\* cancelled and of Outbound Messages only from queued to cancelled.
C8_OptOutTouchesOnlyPending ==
  [][OptOutStep =>
       /\ \A r \in Ids :
            reminder_schedule'[r].status # reminder_schedule[r].status
              => /\ reminder_schedule[r].status = "pending"
                 /\ reminder_schedule'[r].status = "cancelled"
       /\ Len(message_outbox') = Len(message_outbox)
       /\ \A i \in 1..Len(message_outbox) :
            message_outbox'[i].delivery_status # message_outbox[i].delivery_status
              => /\ message_outbox[i].delivery_status = "queued"
                 /\ message_outbox'[i].delivery_status = "cancelled"]_vars

\* an opt-out has just cancelled a pending row while a sent reminder and a
\* delivered-or-failed message were present
C8_Witness ==
  /\ req.api = "settings"
  /\ req.pc = "done"
  /\ ~req.cleanupFailed
  /\ \E r \in Ids : reminder_schedule[r].status = "sent"
  /\ \E r \in Ids : /\ reminder_schedule[r].status = "cancelled"
                    /\ reminder_schedule[r].error_message = Null
  /\ \E i \in 1..Len(message_outbox) : message_outbox[i].delivery_status \in {"sent", "failed"}

\* C9: after a consent transition has completed, a contact is either
\* granted with no opt-out timestamp or not granted with an opt-out timestamp.
C9_ConsentFieldsConsistent ==
  \A c \in Contacts :
    (contacts[c].consent_changed_at # Null /\ ~InFlight(c))
      => contacts[c].whatsapp_consent = (contacts[c].opt_out_at = Null)

\* C10: when a cancellation of an opt-out has failed, the contact stays opted
\* out and the opt-out still answers with success.
C10_CleanupFailureKeepsOptOut ==
  /\ req.cleanupFailed => ~EligibleContact(req.contact)
  /\ (req.cleanupFailed /\ req.pc = "done") => req.response.success

C10_Witness ==
  /\ req.pc = "done"
  /\ req.cleanupFailed
  /\ req.api = "settings"
  /\ req.response.success
  /\ \E r \in Ids : reminder_schedule[r].status = "pending"

\* C11: when a cancellation of an opt-out has failed, the result the opt-out
\* hands to its caller says so: it carries an error or warning, so it differs
\* from the result of an opt-out that cancelled zero items.
C11_CleanupFailureReported ==
  (req.pc = "done" /\ req.cleanupFailed) => req.response.error

\* reminders of the contact's account that are pending
PendingOf(c) ==
  {r \in Ids : /\ DeadlineAccount(reminder_schedule[r].deadline_id) = ContactAccount(c)
               /\ reminder_schedule[r].status = "pending"}

\* Outbound Messages of the contact that are queued
QueuedOf(c) ==
  {i \in 1..Len(message_outbox) : /\ message_outbox[i].contact_id = c
                                  /\ message_outbox[i].delivery_status = "queued"}

\* rows of table reminders of the contact that are not yet sent
OpenOf(c) ==
  {i \in 1..Len(reminders) : /\ reminders[i].contact_id = c
                             /\ reminders[i].status \in {"scheduled", "queued", "pending"}}

OptInStep ==
  \/ \E c \in Contacts : OptInContact(c)
  \/ \E c \in Contacts : SettingsUpdate(c, TRUE)

\* the reminder was cancelled by an opt-out (the drain and the filing trigger
\* leave a message on the rows they cancel) and a contact of its account has
\* opted in again since
CancelledThenOptedIn(r) ==
  /\ reminder_schedule[r].status = "cancelled"
  /\ reminder_schedule[r].error_message = Null
  /\ \E c \in AccountContacts(DeadlineAccount(reminder_schedule[r].deadline_id)) :
       hasWhatsAppConsent(c)

\* C13: an opt-in changes no reminder and no message and creates none, and a
\* reminder cancelled by an earlier opt-out is not sent after a later opt-in.
C13_OptInResurrectsNothing ==
  [][/\ OptInStep => /\ reminder_schedule' = reminder_schedule
                     /\ reminders' = reminders
                     /\ message_outbox' = message_outbox
     /\ \A r \in Ids :
          CancelledThenOptedIn(r) => reminder_schedule'[r].status # "sent"]_vars

\* C14: when a deadline's filed_at goes from null to non-null, each of its
\* pending reminders becomes cancelled and every other reminder keeps its
\* status.
C14_FilingCancelsPending ==
  [][\A d \in Deadlines :
       (deadlines[d].filed_at = Null /\ deadlines'[d].filed_at # Null)
         => \A r \in Ids :
              reminder_schedule'[r].status =
                IF /\ reminder_schedule[r].deadline_id = d
                   /\ reminder_schedule[r].status = "pending"
                THEN "cancelled"
                ELSE reminder_schedule[r].status]_vars

\* both deadlines are filed: the filing of one cancelled its pending reminder,
\* the filing of the other left its sent reminder sent
C14_Witness ==
  /\ \A d \in Deadlines : deadlines[d].filed_at # Null
  /\ \E r \in Ids : /\ reminder_schedule[r].status = "cancelled"
                    /\ reminder_schedule[r].error_message = "Deadline was filed early"
  /\ \E r \in Ids : reminder_schedule[r].status = "sent"

\* C15: once a deadline's filed_at is set, no Outbound Message is enqueued
\* for a reminder of that deadline and no reminder of it is marked sent.
C15_NothingFiresAfterFiling ==
  [][\A r \in Ids :
       deadlines[reminder_schedule[r].deadline_id].filed_at # Null
         => /\ Cardinality({i \in 1..Len(hist'.enqueuedFor) : hist'.enqueuedFor[i] = r})
                 = Cardinality(MessagesFor(r))
            /\ reminder_schedule'[r].status = "sent"
                 => reminder_schedule[r].status = "sent"]_vars

\* the reminders of deadline d
RemindersOf(d) == {r \in Ids : reminder_schedule[r].deadline_id = d}

\* C16: no two reminders share (deadline, template), and no scheduling step
\* adds a reminder to a deadline that already has reminders: scheduling a
\* deadline twice, in sequence or concurrently, leaves what one call leaves
C16_OneReminderPerTemplate ==
  [][/\ \A r, q \in Ids' :
          (/\ reminder_schedule'[r].deadline_id = reminder_schedule'[q].deadline_id
           /\ reminder_schedule'[r].template_id = reminder_schedule'[q].template_id)
            => r = q
     /\ \A d \in Deadlines :
          RemindersOf(d) # {} => RemindersOf(d)' = RemindersOf(d)]_vars

\* two concurrent calls for d1 have settled: one created reminders, the
\* other met the constraint
C16_Witness ==
  /\ sched.pc = "done"
  /\ sched.ids = <<"d1", "d1">>
  /\ \E i, j \in DOMAIN sched.call :
       /\ sched.call[i].pc = "fulfilled" /\ sched.call[i].created # {}
       /\ sched.call[j].error = "Failed to create reminders: duplicate key"
  /\ RemindersOf("d1") # {}

\* C17: a createReminderSchedule call for a deadline that already has
\* reminders completes without raising: no call ends with the error of the
\* insert that met constraint unique_deadline_template
C17_RepeatCallDoesNotRaise ==
  \A i \in DOMAIN sched.call :
    sched.call[i].error # "Failed to create reminders: duplicate key"

\* the result of a call that created nothing
EmptyResult(id) == [deadline_id |-> id, reminders_created |-> 0, reminders |-> {}]

\* C18: a createReminderSchedule call that reads a deadline whose filed_at
\* is set creates no reminder and returns the empty result
C18_FiledDeadlineGetsNoReminders ==
  \A i \in DOMAIN sched.call :
    sched.call[i].filed_at # Null =>
      /\ sched.call[i].pc = "fulfilled"
      /\ sched.call[i].rows = {}
      /\ sched.call[i].created = {}
      /\ sched.pc = "done" => sched.results[i] = EmptyResult(sched.ids[i])

\* a call for d1, filed before any reminder of it existed, has returned
C18_Witness ==
  /\ sched.pc = "done"
  /\ \E i \in DOMAIN sched.call :
       /\ sched.ids[i] = "d1"
       /\ sched.call[i].filed_at # Null
       /\ sched.results[i] = EmptyResult("d1")
  /\ RemindersOf("d1") = {}

\* the instant of 09:00, in zone z, of calendar day `day`
NineOClock(day, z) == 24 * day + 9 - z

\* the offsets of deadline d whose 09:00 send time is strictly after t
OffsetsDue(d, t, z) ==
  {k \in 1..Len(Templates) : NineOClock(DueDate(d) - DayOffsets[k], z) > t}

\* C19: a call that reads an unfiled deadline keeps exactly the offsets (due
\* date minus 3 days, minus 1 day, the due day, each at 09:00) whose send time
\* is strictly after now, and its insert creates one pending reminder for each
\* of them, at that send time
C19_FutureOffsetsScheduled ==
  [][\A i \in DOMAIN sched.call \cap DOMAIN sched'.call :
       LET d == sched.ids[i] IN
       /\ (/\ sched.call[i].pc = "read"
           /\ sched'.call[i].pc \in {"insert", "fulfilled"}
           /\ deadlines[d].filed_at = Null)
            => sched'.call[i].rows = OffsetsDue(d, now, sched.tz)
       /\ (sched.call[i].pc = "insert" /\ sched'.call[i].pc = "fulfilled")
            => /\ Cardinality(sched'.call[i].created) = Cardinality(sched.call[i].rows)
               /\ \A k \in sched.call[i].rows :
                    \E r \in sched'.call[i].created :
                      /\ r \notin Ids
                      /\ reminder_schedule'[r].deadline_id = d
                      /\ reminder_schedule'[r].template_id = Templates[k]
                      /\ reminder_schedule'[r].status = "pending"
                      /\ reminder_schedule'[r].send_at =
                           NineOClock(DueDate(d) - DayOffsets[k], sched.tz)]_vars

\* C20: createReminderSchedules returns one entry per input id, in input
\* order: the empty result for a call that failed, what was created for a
\* call that did not; and a call of the batch fails only for its own unknown
\* id, its own insert error or its own deadline's existing reminders
C20_BatchIsolatesFailures ==
  [][/\ \A i \in DOMAIN sched.call \cap DOMAIN sched'.call :
          /\ (sched.call[i].pc = "read" /\ sched'.call[i].pc = "rejected")
               => sched.ids[i] \notin Deadlines
          /\ (sched.call[i].pc = "insert" /\ sched'.call[i].pc = "rejected")
               => \/ sched'.call[i].error = "Failed to create reminders: insert error"
                  \/ RemindersOf(sched.ids[i]) # {}
     /\ sched'.pc = "done" =>
          /\ Len(sched'.results) = Len(sched'.ids)
          /\ \A i \in 1..Len(sched'.ids) :
               /\ sched'.results[i].deadline_id = sched'.ids[i]
               /\ sched'.call[i].pc = "rejected"
                    => sched'.results[i] = EmptyResult(sched'.ids[i])
               /\ sched'.call[i].pc = "fulfilled"
                    => /\ sched'.results[i].reminders = sched'.call[i].created
                       /\ sched'.results[i].reminders_created =
                            Cardinality(sched'.call[i].created)
                       /\ \A r \in sched'.call[i].created :
                            reminder_schedule'[r].deadline_id = sched'.ids[i]]_vars

\* a batch of an unknown id and d1 has returned: the first entry is empty,
\* the second carries d1's new reminders
C20_Witness ==
  /\ sched.pc = "done"
  /\ sched.ids = <<UnknownDeadline, "d1">>
  /\ sched.call[1].error = "Deadline not found"
  /\ sched.results[1] = EmptyResult(UnknownDeadline)
  /\ sched.results[2].deadline_id = "d1"
  /\ sched.results[2].reminders_created = Cardinality(RemindersOf("d1"))
  /\ sched.results[2].reminders_created > 0

\* C21: once filed_at of a deadline is set it never changes: a later
\* mark-filed request does not overwrite it and nothing resets it to NULL
C21_FiledAtImmutable ==
  [][\A g \in DOMAIN gst_deadlines :
       gst_deadlines[g].filed_at # {} =>
         gst_deadlines'[g].filed_at = gst_deadlines[g].filed_at]_vars

\* C24: a mark-filed request for an id that names no deadline is answered
\* with the not-found error (unless the database itself failed), and it
\* changes no deadline and no reminder
C24_UnknownIdIsNotFound ==
  [][(/\ http'.route = "mark-filed"
      /\ http'.pc = "done"
      /\ http'.deadline_id = UnknownGstDeadline
      /\ http'.details # "statement failed")
       => /\ http'.status = 404
          /\ http'.error = "Deadline not found"
          /\ UNCHANGED <<gst_deadlines, deadlines, reminder_schedule>>]_vars

\* the rows prisma.deadline.create has written for one (entity, return type,
\* period)
RowsOfPeriod(gstin, return_type, period) ==
  {k \in 1..Len(prisma_deadline.rows) :
     /\ prisma_deadline.rows[k].gstin = gstin
     /\ prisma_deadline.rows[k].return_type = return_type
     /\ prisma_deadline.rows[k].period = period}

\* C22: generation run again for the same entity never leaves two deadlines
\* with the same (entity, return type, period) and never fails on the
\* conflict
C22_RegenerationIsSilentNoOp ==
  /\ \A k \in 1..Len(prisma_deadline.rows) :
       Cardinality(RowsOfPeriod(prisma_deadline.rows[k].gstin,
                                prisma_deadline.rows[k].return_type,
                                prisma_deadline.rows[k].period)) = 1
  /\ ~(http.route = "generate" /\ http.pc = "done" /\ http.status = 500)

\* C23: a generate request answered with a validation error has persisted
\* no deadline
C23_RejectedRequestWritesNothing ==
  (http.route = "generate" /\ http.pc = "done" /\ http.status = 400) =>
    /\ http.createdDeadlines = <<>>
    /\ \A k \in 1..Len(prisma_deadline.rows) :
         \A j \in 1..Len(http.createdDeadlines) :
           prisma_deadline.rows[k].id # http.createdDeadlines[j]

\* the first day of the month k months after the month of date
MonthAfter(date, k) == addMonths(startOfMonth(date), k)

\* the deadlines returned whose due date falls in the month that starts at
\* first
DueIn(first) ==
  {k \in 1..Len(generated.deadlines) :
     /\ generated.deadlines[k].due_date.y = first.y
     /\ generated.deadlines[k].due_date.m = first.m}

\* C25: for monthly cadence the generator returns two deadlines, one per
\* return type, for each of the next 12 calendar months, for quarterly
\* cadence two for each of the next 4 quarters, and none due before the start
\* of the month of startDate
C25_CoversTheHorizon ==
  generated.pc = "returned" =>
    /\ generated.filingFrequency = "monthly" =>
         /\ Len(generated.deadlines) = 2 * 12
         /\ \A k \in 1..12 :
              {generated.deadlines[j].return_type :
                 j \in DueIn(MonthAfter(generated.startDate, k))} = {"GSTR-1", "GSTR-3B"}
    /\ generated.filingFrequency = "quarterly" =>
         Len(generated.deadlines) = 2 * 4
    /\ \A k \in 1..Len(generated.deadlines) :
         DayNumber(generated.deadlines[k].due_date)
           >= DayNumber(startOfMonth(generated.startDate))

\* the fixed due day of a returned deadline: the day of its configuration in
\* the month after its period
FixedDay(dl) ==
  LET c == CHOOSE c \in 1..Len(DEADLINE_CONFIGS) :
             /\ DEADLINE_CONFIGS[c].return_type = dl.return_type
             /\ DEADLINE_CONFIGS[c].frequency = generated.filingFrequency
      dueMonth == addMonths([y |-> dl.period_year, m |-> dl.period_month, d |-> 1], 1)
  IN  [y |-> dueMonth.y, m |-> dueMonth.m, d |-> DEADLINE_CONFIGS[c].day]

\* C26: every due date the generator returns is a non-weekend day: the
\* Monday after the fixed day when the fixed day is a Saturday or a Sunday,
\* the fixed day itself otherwise
C26_WeekendRollsToMonday ==
  generated.pc = "returned" =>
    \A k \in 1..Len(generated.deadlines) :
      LET due == generated.deadlines[k].due_date
          fixed == FixedDay(generated.deadlines[k])
      IN  /\ GetDay(due) \notin {0, 6}
          /\ GetDay(fixed) = 6 =>
               GetDay(due) = 1 /\ DayNumber(due) = DayNumber(fixed) + 2
          /\ GetDay(fixed) = 0 =>
               GetDay(due) = 1 /\ DayNumber(due) = DayNumber(fixed) + 1
          /\ GetDay(fixed) \notin {0, 6} => due = fixed

\* a monthly call returned a deadline whose fixed day is a Saturday and one
\* whose fixed day is a Sunday, each due on the Monday after
C26_Witness ==
  /\ generated.pc = "returned"
  /\ generated.filingFrequency = "monthly"
  /\ \E k, j \in 1..Len(generated.deadlines) :
       /\ GetDay(FixedDay(generated.deadlines[k])) = 6
       /\ GetDay(generated.deadlines[k].due_date) = 1
       /\ GetDay(FixedDay(generated.deadlines[j])) = 0
       /\ GetDay(generated.deadlines[j].due_date) = 1

\* C27: a call with a cadence other than monthly or quarterly is rejected
\* with a configuration error: it does not return a result
C27_UnknownCadenceIsRejected ==
  (generated.pc = "returned" /\ generated.filingFrequency \notin {"monthly", "quarterly"})
     => generated.threw

\* the rows a step stamps with a claim
Stamped == {r \in Ids : reminder_schedule[r].claimed_by = Null
                          /\ reminder_schedule'[r].claimed_by # Null}

\* C28: the claim step only stamps reminders that, when they are stamped, are
\* pending, unclaimed and due: a reminder that is cancelled, sent or failed,
\* or not yet due, is never claimed
C28_OnlyPendingDueAreClaimed ==
  [][\A r \in Stamped :
       /\ reminder_schedule[r].status = "pending"
       /\ reminder_schedule[r].send_at <= now]_vars

\* C29: one claim call returns at most batchSize reminders, taken in ascending
\* send_at order: when the call returns, no reminder that is eligible and not
\* locked has an earlier send_at than a reminder the call returns
C29_BatchInSendAtOrder ==
  [][\A w \in Workers :
       (wk[w].pc = "claim" /\ wk'[w].pc = "loop") =>
         /\ Cardinality(wk'[w].todo) <= BatchSize
         /\ \A r \in wk'[w].todo :
              /\ reminder_schedule'[r].claimed_by = w
              /\ \A q \in Ids \ (wk'[w].todo \cup LockedRows) :
                   ClaimableRow(reminder_schedule[q], wk[w].now) =>
                     reminder_schedule[q].send_at >= reminder_schedule[r].send_at]_vars

\* a call has returned a full batch that holds a reminder with a later
\* send_at than a row it passed over because the other call has it locked
C29_Witness ==
  \E w \in Workers : \E v \in Workers \ {w} :
    /\ wk[w].pc = "loop"
    /\ Cardinality(wk[w].todo) = BatchSize
    /\ wk[v].pc = "claim"
    /\ \E r \in wk[w].todo : \E q \in wk[v].got :
         reminder_schedule[q].send_at < reminder_schedule[r].send_at

\* the deadline of reminder r is filed, or no contact of its account has
\* consent, a phone and no opt-out
FiledOrNoContact(r) ==
  LET d == reminder_schedule[r].deadline_id IN
    \/ deadlines[d].filed_at # Null
    \/ \A c \in AccountContacts(DeadlineAccount(d)) :
         \/ ~contacts[c].whatsapp_consent
         \/ ~ContactPhone(c)
         \/ contacts[c].opt_out_at # Null

\* C30: when the drain processes a claimed reminder whose deadline is filed
\* or has no eligible contact (its deadline query having answered), it goes
\* on to no enqueue, marks the reminder cancelled, leaves the outbox as it is
\* and counts the reminder in skipped, not in sent or failed
C30_FiledOrNoContactIsSkipped ==
  [][\A w \in Workers :
       /\ \A r \in Ids :
            (/\ wk[w].pc = "loop" /\ wk'[w].cur = r
             /\ wk'[w].pc # "notfound"
             /\ FiledOrNoContact(r)) => wk'[w].pc = "skip"
       /\ (wk[w].pc = "skip" /\ wk'[w].pc # "skip" /\ wk'[w].pc # "idle") =>
            /\ reminder_schedule'[wk[w].cur].status = "cancelled"
            /\ message_outbox' = message_outbox
            /\ result'[w] = [result[w] EXCEPT !.skipped = @ + 1]]_vars

\* an invocation has skipped, and neither sent nor failed, a reminder it
\* claimed whose deadline is filed or whose contact has given no consent
C30_Witness ==
  /\ result["w1"].skipped >= 1
  /\ result["w1"].sent = 0 /\ result["w1"].failed = 0
  /\ message_outbox = <<>>
  /\ \E r \in Ids :
       /\ reminder_schedule[r].status = "cancelled"
       /\ reminder_schedule[r].claimed_by = "w1"
       /\ reminder_schedule[r].error_message = "Deadline already filed or no eligible contact"
       /\ \/ deadlines[reminder_schedule[r].deadline_id].filed_at # Null
          \/ ~contacts["c1"].whatsapp_consent

\* the contact is eligible as the drain's query reads it
ReadEligible(c) ==
  contacts[c].whatsapp_consent /\ ContactPhone(c) /\ contacts[c].opt_out_at = Null

\* C31: when the drain processes a claimed reminder whose deadline is unfiled
\* and has an eligible contact, it goes on to enqueue for one eligible
\* contact; its enqueue appends exactly one message, queued, with the
\* reminder's template id and the gstin, return type and due date of the
\* deadline; and it then marks the reminder sent with sent_at set
C31_EligibleReminderIsEnqueuedAndSent ==
  [][\A w \in Workers :
       /\ \A r \in Ids :
            LET d == reminder_schedule[r].deadline_id IN
            (/\ wk[w].pc = "loop" /\ wk'[w].cur = r
             /\ wk'[w].pc # "notfound"
             /\ deadlines[d].filed_at = Null
             /\ \E c \in AccountContacts(DeadlineAccount(d)) : ReadEligible(c))
              => /\ wk'[w].pc = "enqueue"
                 /\ wk'[w].contact \in AccountContacts(DeadlineAccount(d))
                 /\ ReadEligible(wk'[w].contact)
       /\ (wk[w].pc = "enqueue" /\ wk'[w].pc = "marksent") =>
            LET r == wk[w].cur
                d == reminder_schedule[r].deadline_id
            IN  /\ Len(message_outbox') = Len(message_outbox) + 1
                /\ SubSeq(message_outbox', 1, Len(message_outbox)) = message_outbox
                /\ message_outbox'[Len(message_outbox')] =
                     [contact_id |-> wk[w].contact,
                      template_id |-> reminder_schedule[r].template_id,
                      parameters |-> [gstin |-> DeadlineGstin(d),
                                      return_type |-> DeadlineReturnType(d),
                                      due_date |-> DueDate(d)],
                      delivery_status |-> "queued"]
       /\ (wk[w].pc = "marksent" /\ wk'[w].pc = "loop") =>
            /\ reminder_schedule'[wk[w].cur].status = "sent"
            /\ reminder_schedule'[wk[w].cur].sent_at = Ts
            /\ message_outbox' = message_outbox
            /\ result'[w] = [result[w] EXCEPT !.sent = @ + 1]]_vars

\* both reminders were claimed by one invocation, each has its one queued
\* message, for the two deadlines, and both are sent
C31_Witness ==
  /\ Len(message_outbox) = NumReminders
  /\ \A i \in 1..Len(message_outbox) : message_outbox[i].delivery_status = "queued"
  /\ \E i, j \in 1..Len(message_outbox) :
       message_outbox[i].parameters.return_type # message_outbox[j].parameters.return_type
  /\ \A r \in Ids : /\ reminder_schedule[r].status = "sent"
                    /\ reminder_schedule[r].sent_at = Ts
                    /\ reminder_schedule[r].claimed_by = "w1"
  /\ result["w1"].sent = NumReminders

\* the error text of the processing step of worker w that is about to fail
ErrorText(w) == IF wk[w].pc = "notfound" THEN "Deadline not found" ELSE wk[w].err

\* C32: when the processing of a reminder raises an error, the reminder is
\* marked failed with the error text and added to the summary's errors and
\* failed count; it is not in what is left of the pass, the rest of the batch
\* stays to be processed; and a failed reminder is never claimed or processed
\* again
C32_ErrorMarksFailedAndGoesOn ==
  [][/\ \A w \in Workers :
          (wk[w].pc \in {"notfound", "catch"} /\ wk'[w].pc = "loop") =>
            /\ reminder_schedule'[wk[w].cur].status = "failed"
            /\ reminder_schedule'[wk[w].cur].error_message = ErrorText(w)
            /\ result'[w] = [result[w] EXCEPT
                 !.failed = @ + 1,
                 !.errors = Append(@, [reminder_id |-> wk[w].cur, error |-> ErrorText(w)])]
            /\ wk'[w].todo = wk[w].todo
            /\ wk[w].cur \notin wk'[w].todo
            /\ message_outbox' = message_outbox
     /\ \A r \in Ids :
          reminder_schedule[r].status = "failed" =>
            /\ reminder_schedule'[r].claimed_by = reminder_schedule[r].claimed_by
            /\ hist'.fetches[r] = hist.fetches[r]
            /\ \A w \in Workers : r \notin wk'[w].got /\ r \notin wk'[w].todo]_vars

\* an invocation claimed both reminders, failed on one, which is in errors
\* with its text, and went on to send the other
C32_Witness ==
  \E w \in Workers :
    /\ result[w].processed = 2
    /\ result[w].failed = 1 /\ result[w].sent = 1
    /\ Len(result[w].errors) = 1
    /\ LET e == result[w].errors[1] IN
         /\ reminder_schedule[e.reminder_id].status = "failed"
         /\ reminder_schedule[e.reminder_id].error_message = e.error
         /\ e.error = "Failed to enqueue message"
         /\ \E r \in Ids \ {e.reminder_id} :
              /\ reminder_schedule[r].status = "sent"
              /\ hist.enqueuedFor = <<r>>

\* consentGranted is true and optedOutAt is null, as stored
Consenting(c) == contacts[c].whatsapp_consent /\ contacts[c].opt_out_at = Null

\* C33: a drain chooses a contact as recipient only if, in the state in which
\* it reads the contact, whatsapp_consent is true and opt_out_at is null: for
\* the claiming drain the read is the deadline query of processReminder, for
\* the plain-query drain it is findMany, whose result decides the recipients
C33_RecipientConsentsAtRead ==
  [][\A w \in Workers :
       /\ (wk[w].pc = "loop" /\ wk'[w].pc = "enqueue") => Consenting(wk'[w].contact)
       /\ (cron[w].pc = "idle" /\ cron'[w].pc = "loop") =>
            \A r \in cron'[w].todo :
              (/\ ~cron'[w].seen[r].filed
               /\ cron'[w].seen[r].whatsapp_consent
               /\ cron'[w].seen[r].whatsapp_number)
                => Consenting(cron'[w].seen[r].contact)]_vars

\* C34: the plain-query drain has no claim: an invocation enqueues a message
\* for every reminder its query returned, so a reminder gets one message from
\* each overlapping invocation whose query ran before the reminder was
\* marked, and none from an invocation that started after: at most as many
\* messages as there are concurrent invocations, and more than one when two
\* invocations overlap (C34_Witness)
C34_OneMessagePerOverlappingInvocation ==
  \A r \in Ids :
    /\ Cardinality(MessagesFor(r)) <= Cardinality(Workers)
    /\ Cardinality(MessagesFor(r)) >= 1 =>
         \/ reminder_schedule[r].status # "pending"
         \/ \E w \in Workers : cron[w].cur = r

\* two overlapping invocations have both selected the same reminder, both
\* enqueued a message for it and both counted it as sent
C34_Witness ==
  \E r \in Ids :
    /\ Cardinality(MessagesFor(r)) = 2
    /\ \A i \in MessagesFor(r) : message_outbox[i].delivery_status = "queued"
    /\ reminder_schedule[r].status = "sent"
    /\ \A w \in Workers : cron[w].pc = "loop" /\ cron[w].result.sent >= 1

\* C35: at every point of an invocation's loop processed, the number of
\* reminders it claimed, is sent + skipped + failed plus the reminders still to
\* process or in process, so the summary it returns has processed = sent +
\* skipped + failed; and errors has one entry per reminder counted in failed,
\* each for a different reminder
C35_SummaryAddsUp ==
  \A w \in Workers :
    /\ wk[w].pc \in {"loop", "notfound", "skip", "enqueue", "marksent", "catch"} =>
         result[w].processed =
           result[w].sent + result[w].skipped + result[w].failed
             + Cardinality(wk[w].todo) + (IF wk[w].cur = 0 THEN 0 ELSE 1)
    /\ (wk[w].pc = "loop" /\ wk[w].todo = {}) =>
         result[w].processed = result[w].sent + result[w].skipped + result[w].failed
    /\ Len(result[w].errors) = result[w].failed
    /\ \A i, j \in 1..Len(result[w].errors) :
         result[w].errors[i].reminder_id = result[w].errors[j].reminder_id => i = j

\* an invocation that claimed every reminder is about to return a summary
\* that counts a failed and a skipped reminder
C35_Witness ==
  \E w \in Workers :
    /\ wk[w].pc = "loop" /\ wk[w].todo = {}
    /\ result[w].processed = NumReminders
    /\ result[w].failed >= 1
    /\ result[w].skipped >= 1
    /\ Len(result[w].errors) = result[w].failed

\* C36: on the path without the claim RPC no reminder is processed by two
\* invocations, and every reminder an invocation stamps, and so processes, is
\* still pending when the update stamps it
C36_FallbackClaimIsExclusiveAndPending ==
  [][/\ \A r \in Ids : hist'.fetches[r] <= 1
     /\ \A w \in Workers :
          (wk[w].pc = "update" /\ wk'[w].pc = "verify") =>
            \A r \in wk[w].cand :
              reminder_schedule'[r].claimed_by = w =>
                /\ reminder_schedule[r].claimed_by = Null
                /\ reminder_schedule[r].status = "pending"]_vars

\* the drain is between its enqueue for r and its write of 'sent'
Finalizing(r) == \E w \in Workers : wk[w].pc = "marksent" /\ wk[w].cur = r

\* C37: once the drain is done with a reminder it enqueued a message for, the
\* reminder is sent with sent_at set, whether or not the write of 'sent'
\* failed or a cancellation ran meanwhile; and every sent reminder has a
\* message enqueued for it
C37_EnqueuedIffSent ==
  \A r \in Ids :
    /\ (MessagesFor(r) # {} /\ ~Finalizing(r)) =>
         /\ reminder_schedule[r].status = "sent"
         /\ reminder_schedule[r].sent_at # Null
    /\ reminder_schedule[r].status = "sent" => MessagesFor(r) # {}

\* C38: once the filing of a deadline has completed no reminder of the
\* deadline is pending, whatever a scheduling call that read the deadline
\* before the filing does afterwards
C38_NoPendingReminderOfFiledDeadline ==
  \A d \in Deadlines :
    deadlines[d].filed_at # Null =>
      \A r \in Ids :
        reminder_schedule[r].deadline_id = d => reminder_schedule[r].status # "pending"

\* an account with two contacts, both opted in, and every reminder due: one
\* drain invocation at a time and the settings requests of either contact
InitAccount ==
  /\ now = SeedSendAt(NumReminders)
  /\ reminder_schedule = [r \in 1..NumReminders |-> NewReminder(r)]
  /\ contacts = [c \in AllContacts |-> NewContact]
  /\ InitCommon

NextAccount ==
  \/ Drain("w1")
  \/ \E c \in Contacts : \E v \in BOOLEAN : SettingsUpdate(c, v)
  \/ SettingsCancelReminders
  \/ SettingsCancelMessages
  \/ Return

SpecAccount == InitAccount /\ [][NextAccount]_vars

\* the settings request has run cancelPendingRemindersForContact to its end
CancelledReminders ==
  /\ req.pc = "s_cancel"
  /\ "reminders" \in req.tasks
  /\ "reminders" \notin req'.tasks
  /\ ~req'.cleanupFailed

\* C39: the opt-out of one contact cancels every pending reminder of every
\* deadline of the contact's account, also while another contact of the
\* account is eligible, and leaves no reminder of the account pending; the
\* drain skips a reminder of an unfiled deadline only when no contact of the
\* account is eligible, so it would have sent them to the other contact
C39_OptOutCancelsTheWholeAccount ==
  [][/\ CancelledReminders =>
          \A r \in Ids :
            reminder_schedule[r].deadline_id \in AccountDeadlines(ContactAccount(req.contact)) =>
              /\ reminder_schedule'[r].status # "pending"
              /\ reminder_schedule[r].status = "pending" =>
                   reminder_schedule'[r].status = "cancelled"
     /\ \A w \in Workers :
          wk[w].pc = "loop" /\ wk'[w].pc = "skip" =>
            LET d == reminder_schedule[wk'[w].cur].deadline_id
            IN \/ deadlines[d].filed_at # Null
               \/ \A c \in AccountContacts(DeadlineAccount(d)) : ~EligibleContact(c)]_vars

\* c1 has turned consent off and the request is over: a reminder of the
\* account was cancelled by it although c2 is eligible, and the drain has
\* sent another reminder of the account to c2 after c1's opt-out
C39_Witness ==
  /\ req.pc = "done"
  /\ req.api = "settings"
  /\ req.contact = "c1"
  /\ req.cleanup.cancelledReminders >= 1
  /\ ~EligibleContact("c1")
  /\ EligibleContact("c2")
  /\ \E r \in Ids : /\ reminder_schedule[r].status = "cancelled"
                    /\ reminder_schedule[r].sent_at = Null
  /\ \E i \in 1..Len(message_outbox) : message_outbox[i].contact_id = "c2"

\* one reminder more than a batch holds, each due within the clock's horizon
LiveIds == 1..(BatchSize + 1)

InitLive ==
  /\ now = 0
  /\ reminder_schedule =
       [r \in LiveIds |-> [NewReminder(r) EXCEPT !.send_at = r % (MaxTime + 1)]]
  /\ \E g \in BOOLEAN :
       contacts = [c \in {"c1"} |-> [NewContact EXCEPT !.whatsapp_consent = g]]
  /\ InitCommon

\* concurrent drain invocations none of which is killed; the status write of
\* markReminderSent may come back with an error, which the drain never reads
NextLive ==
  \/ \E w \in Workers : Drain(w)
  \/ \E w \in Workers : MarkSentFails(w)
  \/ Tick

\* the cron service keeps invoking the route and every invocation keeps running
SpecLive ==
  /\ InitLive
  /\ [][NextLive]_vars
  /\ \A w \in Workers : WF_vars(Drain(w))
  /\ WF_vars(Tick)

\* the same invocations on a database whose every status write succeeds
NextLiveNoError ==
  \/ \E w \in Workers : Drain(w)
  \/ Tick

SpecLiveNoError ==
  /\ InitLive
  /\ [][NextLiveNoError]_vars
  /\ \A w \in Workers : WF_vars(Drain(w))
  /\ WF_vars(Tick)

\* C40: while no invocation is killed and invocations keep coming, every
\* reminder that is pending, unclaimed and due eventually reaches a terminal
\* status (sent, failed or cancelled)
C40_DueReminderReachesTerminalStatus ==
  \A r \in LiveIds :
    ClaimableRow(reminder_schedule[r], now) ~> IsTerminal(r)

====
